---- MODULE Spec2Model ----
(***************************************************************************)
(* Governance state engine of src/governance/governance.h: the extraction  *)
(* of proposals and votes from blocks (dataFromBlock), the chain listener  *)
(* (BlockConnected / BlockDisconnected), the state store (proposals, votes *)
(* guarded by mu) and the bootstrap loader (loadGovernanceData).           *)
(*                                                                         *)
(* Modelling conventions                                                   *)
(*  - a uint256 digest is the tuple of the fields that were hashed (no     *)
(*    collisions); UintToArith256 gives its numeric value.                 *)
(*  - a compact signature is <<signing key, signed digest>>; RecoverCompact*)
(*    returns the signing key when the digest matches.                     *)
(*  - the UTXO view (pcoinsTip) is the set of outpoints spent by the       *)
(*    inputs of the blocks of the active chain, the connected block        *)
(*    included; the mempool holds no spend of a voting coin.               *)
(*  - url and description of a proposal are left out (free-form strings    *)
(*    that only enter the digest).                                         *)
(***************************************************************************)
EXTENDS Integers, Sequences, FiniteSets, TLC

(***************************************************************************)
(* Enumerations and protocol constants                                     *)
(***************************************************************************)
NONE == 0
PROPOSAL == 1
VOTE == 2
NETWORK_VERSION == 1
NO == 0
YES == 1
ABSTAIN == 2

(* Consensus::Params, scaled down: superblock interval, cutoffs, amounts.  *)
superblock == 4
proposalCutoff == 2
votingCutoff == 1
proposalMinAmount == 1
proposalMaxAmount == 5
voteMinUtxoAmount == 10

GetBlockSubsidy(blockHeight) == proposalMaxAmount

(* Bounds of the model *)
MaxHeight == 4

(***************************************************************************)
(* The outpoints of the model and what the transaction index knows of them *)
(* (GetKeyIDForUTXO): the controlling key id and the value.                *)
(*   1, 2 : pay-to-pubkey-hash coins of keys "kA", "kB"                    *)
(*   3    : a coin below voteMinUtxoAmount                                 *)
(*   4    : a coin of key "kC" created by the transaction that created 2   *)
(*   5, 6 : coins of keys "kD", "kE" from transactions of their own        *)
(*   7, 8 : a second voting coin of "kA", a small coin of "kE"             *)
(*   0    : the coin that funds a transaction (never a voting coin)        *)
(* source is the transaction that created the coin (utxo.hash).            *)
(***************************************************************************)
NullKey == "null"
Utxos == {1, 2, 3, 4, 5, 6, 7, 8}
FeeCoin == 0
CoinTable ==
    (1 :> [keyid |-> "kA", amount |-> 250, source |-> "s1"]) @@
    (2 :> [keyid |-> "kB", amount |-> 1000, source |-> "s2"]) @@
    (3 :> [keyid |-> "kA", amount |-> 5, source |-> "s3"]) @@
    (4 :> [keyid |-> "kC", amount |-> 1000, source |-> "s2"]) @@
    (5 :> [keyid |-> "kD", amount |-> 1000, source |-> "s5"]) @@
    (6 :> [keyid |-> "kE", amount |-> 250, source |-> "s6"]) @@
    (7 :> [keyid |-> "kA", amount |-> 250, source |-> "s7"]) @@
    (8 :> [keyid |-> "kE", amount |-> 5, source |-> "s8"])

(* GetKeyIDForUTXO + loadKeyID: keyid and amount stay null/0 when the      *)
(* transaction of the outpoint is not found.                               *)
GetKeyIDForUTXO(utxo) ==
    IF utxo \in DOMAIN CoinTable
    THEN [found |-> TRUE, keyid |-> CoinTable[utxo].keyid, amount |-> CoinTable[utxo].amount]
    ELSE [found |-> FALSE, keyid |-> NullKey, amount |-> 0]

(***************************************************************************)
(* Blocks, transactions, outpoints spent                                   *)
(***************************************************************************)
RECURSIVE SeqUnion(_)
SeqUnion(s) == IF s = <<>> THEN {} ELSE Head(s) \cup SeqUnion(Tail(s))

TxPrevouts(tx) == {tx.vin[i].prevout : i \in DOMAIN tx.vin}

(* the set "prevouts" that BlockConnected collects over block->vtx *)
BlockPrevouts(block) == SeqUnion([i \in DOMAIN block.vtx |-> TxPrevouts(block.vtx[i])])

(* pcoinsTip: outpoints without a coin, given the blocks of the active chain *)
SpentOnChain(ch) == SeqUnion([i \in DOMAIN ch |-> BlockPrevouts(ch[i])]) \ {FeeCoin}

(* a view in which every coin is found *)
IsUTXOSpentNever(utxo, spent) == FALSE

(* IsUTXOSpent: the coin is missing from the view *)
IsUTXOSpent(utxo, spent) == utxo \in spent \/ utxo \notin DOMAIN CoinTable

(***************************************************************************)
(* Proposal                                                                *)
(***************************************************************************)
ValidNames == {"alpha", "beta"}
ValidAddresses == {"addr1"}

ProposalHash(p) == <<p.version, p.type, p.name, p.superblock, p.amount, p.address>>

ProposalIsValid(p) ==
    /\ p.name \in ValidNames
    /\ p.superblock % superblock = 0
    /\ p.amount >= proposalMinAmount
    /\ p.amount <= GetBlockSubsidy(p.superblock)
    /\ p.address \in ValidAddresses
    /\ p.type = PROPOSAL
    /\ p.version = NETWORK_VERSION

(***************************************************************************)
(* Vote                                                                    *)
(***************************************************************************)
isValidVoteType(voteType) == voteType >= NO /\ voteType <= ABSTAIN

getHashWithVote(v) == <<v.version, v.type, v.proposal, v.vote, v.utxo>>

(* Vote::getHash: the vote value is excluded *)
getHash(v) == <<v.version, v.type, v.proposal, v.utxo>>

(* a signature digest that leaves the vote value out *)
sigHashWithoutVote(v) == <<v.version, v.type, v.proposal, v.utxo, "sig">>

(* Vote::sigHash: the vote value is included *)
sigHash(v) == <<v.version, v.type, v.proposal, v.vote, v.utxo, "sig">>

(* Numeric value of a signature digest.  The code compares the digests of  *)
(* two votes with the same getHash only; on those the value is injective.  *)
UintToArith256(h) == (5 * (h[4] + 3 * h[5] + h[3][4]) + 1) % 7

RecoverCompact(digest, signature) ==
    IF signature[2] = digest THEN signature[1] ELSE "kBad"

(* a validity check that does not compare the signer with the coin's key *)
VoteIsValidAnySigner(v, spent) ==
    /\ v.version = NETWORK_VERSION /\ v.type = VOTE /\ isValidVoteType(v.vote)
    /\ v.amount >= voteMinUtxoAmount
    /\ ~IsUTXOSpent(v.utxo, spent)

(* Vote::isValid *)
VoteIsValid(v, spent) ==
    /\ v.version = NETWORK_VERSION /\ v.type = VOTE /\ isValidVoteType(v.vote)
    /\ v.amount >= voteMinUtxoAmount
    /\ v.keyid # NullKey
    /\ v.pubkey = v.keyid
    /\ ~IsUTXOSpent(v.utxo, spent)

(***************************************************************************)
(* The store: two maps keyed by digest                                     *)
(***************************************************************************)
EmptyMap == [k \in {} |-> 0]
MapPut(m, k, x) == [y \in DOMAIN m \cup {k} |-> IF y = k THEN x ELSE m[y]]
MapErase(m, k) == [y \in DOMAIN m \ {k} |-> m[y]]
MapValues(m) == {m[k] : k \in DOMAIN m}

(* Governance::getProposal: a null proposal (superblock 0) when unknown *)
NullProposal ==
    [version |-> NETWORK_VERSION, type |-> PROPOSAL, name |-> "", superblock |-> 0,
     amount |-> 0, address |-> "", blockNumber |-> 0]
getProposal(props, hash) == IF hash \in DOMAIN props THEN props[hash] ELSE NullProposal

(***************************************************************************)
(* Cutoffs and vin binding                                                 *)
(***************************************************************************)
NoIndex == -1

meetsCutoffProposal(p, blockNumber) == blockNumber <= p.superblock - proposalCutoff

(* a vote cutoff that forgets votingCutoff *)
meetsCutoffVoteLate(v, blockNumber, props) ==
    LET proposal == getProposal(props, v.proposal)
    IN  IF proposal.superblock = 0 THEN FALSE
        ELSE blockNumber <= proposal.superblock

(* a cutoff that holds at the last admissible height only *)
meetsCutoffVoteAtEdge(v, blockNumber, props) ==
    LET proposal == getProposal(props, v.proposal)
    IN  IF proposal.superblock = 0 THEN FALSE
        ELSE blockNumber = proposal.superblock - votingCutoff

meetsCutoffVote(v, blockNumber, props) ==
    LET proposal == getProposal(props, v.proposal)
    IN  IF proposal.superblock = 0 THEN FALSE
        ELSE blockNumber <= proposal.superblock - votingCutoff

(* a binding check that every input passes *)
matchesAnyVin(v, vin) == TRUE

matchesVinPubKey(v, vin) == vin.pubkey # NullKey /\ vin.pubkey = v.pubkey

(***************************************************************************)
(* dataFromBlock                                                           *)
(***************************************************************************)
(* std::set<Proposal>::insert, std::set<Vote>::insert: no effect when an   *)
(* element with an equal digest is present                                 *)
SetInsertProposal(S, p) ==
    IF \E e \in S : ProposalHash(e) = ProposalHash(p) THEN S ELSE S \cup {p}

SetInsertVote(S, v) ==
    IF \E e \in S : getHash(e) = getHash(v) THEN S ELSE S \cup {v}

(* deserialization of a proposal payload into Proposal(blockNumber) *)
ReadProposal(data, height) ==
    [version |-> data.version, type |-> data.type, name |-> data.obj.name,
     superblock |-> data.obj.superblock, amount |-> data.obj.amount,
     address |-> data.obj.address,
     blockNumber |-> IF height = NoIndex THEN 0 ELSE height]

(* deserialization of a vote payload into Vote(outpoint, time, blockNumber) *)
ReadVote(data, outpoint, time, height) ==
    LET base == [version |-> data.version, type |-> data.type,
                 proposal |-> data.obj.proposal, vote |-> data.obj.vote,
                 utxo |-> data.obj.utxo, signature |-> data.obj.signature]
        coin == GetKeyIDForUTXO(data.obj.utxo)
    IN  [version |-> base.version, type |-> base.type, proposal |-> base.proposal,
         vote |-> base.vote, utxo |-> base.utxo, signature |-> base.signature,
         pubkey |-> RecoverCompact(sigHash(base), base.signature),
         outpoint |-> outpoint, time |-> time,
         amount |-> coin.amount, keyid |-> coin.keyid,
         blockNumber |-> IF height = NoIndex THEN 0 ELSE height]

(* one output of one transaction; acc = [ps, vs] *)
ScanOutput(tx, n, acc, time, height, props, spent) ==
    LET out == tx.vout[n] IN
    IF out.op # "return" THEN acc
    ELSE IF out.data.version # NETWORK_VERSION THEN acc
    ELSE IF out.data.type = PROPOSAL THEN
        LET proposal == ReadProposal(out.data, height) IN
        IF ProposalIsValid(proposal)
           /\ (height = NoIndex \/ meetsCutoffProposal(proposal, height))
        THEN [acc EXCEPT !.ps = SetInsertProposal(acc.ps, proposal)]
        ELSE acc
    ELSE IF out.data.type = VOTE THEN
        LET vote == ReadVote(out.data, [hash |-> tx, n |-> n], time, height) IN
        IF ~VoteIsValid(vote, spent)
           \/ (height # NoIndex /\ ~meetsCutoffVote(vote, height, props))
        THEN acc
        ELSE IF \E i \in DOMAIN tx.vin : matchesVinPubKey(vote, tx.vin[i])
        THEN IF \E e \in acc.vs : getHash(e) = getHash(vote)
             THEN LET it == CHOOSE e \in acc.vs : getHash(e) = getHash(vote) IN
                  IF UintToArith256(sigHash(vote)) > UintToArith256(sigHash(it))
                  THEN [acc EXCEPT !.vs = SetInsertVote(acc.vs, vote)]
                  ELSE acc
             ELSE [acc EXCEPT !.vs = SetInsertVote(acc.vs, vote)]
        ELSE acc
    ELSE acc

RECURSIVE ScanOutputs(_, _, _, _, _, _, _)
ScanOutputs(tx, n, acc, time, height, props, spent) ==
    IF n > Len(tx.vout) THEN acc
    ELSE ScanOutputs(tx, n + 1, ScanOutput(tx, n, acc, time, height, props, spent),
                     time, height, props, spent)

RECURSIVE ScanTxs(_, _, _, _, _, _)
ScanTxs(block, i, acc, height, props, spent) ==
    IF i > Len(block.vtx) THEN acc
    ELSE ScanTxs(block, i + 1,
                 ScanOutputs(block.vtx[i], 1, acc, block.time, height, props, spent),
                 height, props, spent)

(* height = NoIndex stands for blockIndex == nullptr; props is the proposal *)
(* map as instance().getProposal reads it; spent is the UTXO view           *)
dataFromBlock(block, height, props, spent) ==
    ScanTxs(block, 1, [ps |-> {}, vs |-> {}], height, props, spent)

(***************************************************************************)
(* BlockConnected / BlockDisconnected as functions on the store            *)
(***************************************************************************)
(* for (auto & proposal : ps) proposals[proposal.getHash()] = proposal *)
RECURSIVE InsertProposals(_, _)
InsertProposals(props, ps) ==
    IF ps = {} THEN props
    ELSE LET p == CHOOSE x \in ps : TRUE
         IN  InsertProposals(MapPut(props, ProposalHash(p), p), ps \ {p})

(* a replacement rule that forgets the block time *)
VoteSupersedesSigOnly(v, e) == UintToArith256(sigHash(v)) > UintToArith256(sigHash(e))

(* the body of the vote loop of BlockConnected: does v replace the stored e *)
VoteSupersedes(v, e) ==
    IF v.time > e.time THEN TRUE
    ELSE UintToArith256(sigHash(v)) > UintToArith256(sigHash(e))

MergeVote(vts, v, props) ==
    IF v.proposal \notin DOMAIN props THEN vts
    ELSE IF getHash(v) \in DOMAIN vts
         THEN IF VoteSupersedes(v, vts[getHash(v)]) THEN MapPut(vts, getHash(v), v) ELSE vts
         ELSE MapPut(vts, getHash(v), v)

RECURSIVE MergeVotes(_, _, _)
MergeVotes(vts, vs, props) ==
    IF vs = {} THEN vts
    ELSE LET v == CHOOSE x \in vs : TRUE
         IN  MergeVotes(MergeVote(vts, v, props), vs \ {v}, props)

KeepAllVotes(vts, prevouts) == vts

(* the erase loop over votes: drop every vote whose utxo is in prevouts *)
RemoveSpentVotes(vts, prevouts) ==
    [k \in {h \in DOMAIN vts : vts[h].utxo \notin prevouts} |-> vts[k]]

(* the critical section of BlockConnected, given what dataFromBlock returned *)
ConnectMerge(props, vts, data, block) ==
    LET props1 == InsertProposals(props, data.ps)
        votes1 == MergeVotes(vts, data.vs, props1)
    IN  [proposals |-> props1, votes |-> RemoveSpentVotes(votes1, BlockPrevouts(block))]

(* a connect that inserts the proposals of the block before its votes are  *)
(* held against the cutoff                                                 *)
ConnectStoreProposalsFirst(props, vts, block, height, spent) ==
    LET first == ConnectMerge(props, vts, dataFromBlock(block, height, props, spent), block)
    IN  ConnectMerge(props, vts, dataFromBlock(block, height, first.proposals, spent), block)

(* BlockConnected(block, pindex) with pindex->nHeight = height *)
ConnectStore(props, vts, block, height, spent) ==
    ConnectMerge(props, vts, dataFromBlock(block, height, props, spent), block)

(* the critical section of BlockDisconnected: erase by digest *)
DisconnectErase(props, vts, data) ==
    [proposals |-> [k \in DOMAIN props \ {ProposalHash(p) : p \in data.ps} |-> props[k]],
     votes |-> [k \in DOMAIN vts \ {getHash(v) : v \in data.vs} |-> vts[k]]]

(* BlockDisconnected(block): extraction without block index, then the erase *)
DisconnectStore(props, vts, block, spent) ==
    DisconnectErase(props, vts, dataFromBlock(block, NoIndex, props, spent))

(* a lock that every thread finds free *)
MuIgnored(holder) == TRUE

(* LOCK(mu): the caller proceeds only while no other thread holds mu *)
MuAvailable(holder) == holder = "free"

(***************************************************************************)
(* Inputs: the transactions and blocks the chain may deliver               *)
(***************************************************************************)
Times == {1, 2}

ProposalFields(name, sb, amount) ==
    [name |-> name, superblock |-> sb, amount |-> amount, address |-> "addr1"]

ProposalData(name, sb, amount) ==
    [op |-> "return",
     data |-> [version |-> NETWORK_VERSION, type |-> PROPOSAL,
               obj |-> ProposalFields(name, sb, amount)]]

(* the digest of the proposal a payload carries *)
ProposalDataHash(name, sb, amount) ==
    <<NETWORK_VERSION, PROPOSAL, name, sb, amount, "addr1">>

(* a vote signed by key over its own signature digest *)
VoteData(prop, vote, utxo, key) ==
    LET base == [version |-> NETWORK_VERSION, type |-> VOTE, proposal |-> prop,
                 vote |-> vote, utxo |-> utxo]
    IN  [op |-> "return",
         data |-> [version |-> NETWORK_VERSION, type |-> VOTE,
                   obj |-> [proposal |-> prop, vote |-> vote, utxo |-> utxo,
                            signature |-> <<key, sigHash(base)>>]]]

FundingIn(key) == [prevout |-> FeeCoin, pubkey |-> key]

AlphaHash == ProposalDataHash("alpha", superblock, proposalMaxAmount)

ProposalTx == [vin |-> <<FundingIn("kF")>>, vout |-> <<ProposalData("alpha", superblock, proposalMaxAmount)>>]

(* a voting transaction of the owner of utxo: one input signed by the      *)
(* owner, one OP_RETURN output per vote                                    *)
VoteTx(utxo, voteSeq) ==
    [vin |-> <<FundingIn(CoinTable[utxo].keyid)>>,
     vout |-> [i \in DOMAIN voteSeq |->
                  VoteData(AlphaHash, voteSeq[i], utxo, CoinTable[utxo].keyid)]]

(* a payment that spends utxo *)
SpendTx(utxo) ==
    [vin |-> <<[prevout |-> utxo, pubkey |-> CoinTable[utxo].keyid]>>,
     vout |-> <<[op |-> "pay"]>>]

VoteChoices == {NO, YES}

(* voting transactions: every single vote of coin 1, a YES vote of coin 2, *)
(* and both orders of two different votes of coin 1 in one transaction     *)
SingleVoteTxs == {VoteTx(1, <<x>>) : x \in VoteChoices}
PairVoteTxs ==
    {VoteTx(1, <<q[1], q[2]>>) : q \in {r \in VoteChoices \X VoteChoices : r[1] # r[2]}}

BlockInputs ==
    {[time |-> 1, vtx |-> <<ProposalTx>>]}
    \cup {[time |-> 1, vtx |-> <<SpendTx(1)>>]}
    \cup {[time |-> t, vtx |-> <<tx>>] : t \in Times, tx \in SingleVoteTxs}
    \cup {[time |-> 1, vtx |-> <<VoteTx(2, <<YES>>)>>]}
    \cup {[time |-> 1, vtx |-> <<tx>>] : tx \in PairVoteTxs}

(***************************************************************************)
(* Inputs of the bootstrap loader: the chains found on disk at startup     *)
(***************************************************************************)
governanceBlock == 1
Cores == 2

BootBlockInputs ==
    {[time |-> 1, vtx |-> <<ProposalTx>>],
     [time |-> 1, vtx |-> <<VoteTx(1, <<YES>>)>>],
     [time |-> 2, vtx |-> <<VoteTx(1, <<NO>>)>>],
     [time |-> 1, vtx |-> <<VoteTx(2, <<YES>>)>>],
     [time |-> 1, vtx |-> <<SpendTx(1)>>]}

(* no outpoint is spent twice on a chain *)
NoDoubleSpend(ch) ==
    \A i \in DOMAIN ch : \A j \in DOMAIN ch :
        i < j => (BlockPrevouts(ch[i]) \cap BlockPrevouts(ch[j])) \ {FeeCoin} = {}

BootChains ==
    {<<>>} \cup
    {ch \in {<<a, b, c>> : a \in BootBlockInputs, b \in BootBlockInputs, c \in BootBlockInputs} :
        NoDoubleSpend(ch)}

(***************************************************************************)
(* loadGovernanceData: the slices of the two passes                        *)
(***************************************************************************)
Workers == 0 .. (Cores - 1)

(* a test that lets every chain but the empty one through *)
NothingToLoadAtGenesis(blockHeight, first) == blockHeight = 0

(* blockHeight == 0 || blockHeight < consensus.governanceBlock *)
NothingToLoad(blockHeight, first) == blockHeight = 0 \/ blockHeight < first

(* the bounds of slice k of the sweep for a first height, a chain height   *)
(* and a number of cores                                                   *)
ShardSlice(first, blockHeight, cores) == (blockHeight - first) \div cores
ShardStart(first, blockHeight, cores, k) == first + k * ShardSlice(first, blockHeight, cores)

(* a last slice that stops at blockHeight, one block short *)
ShardEndShort(first, blockHeight, cores, k) ==
    IF k = cores - 1 THEN blockHeight
    ELSE ShardStart(first, blockHeight, cores, k) + ShardSlice(first, blockHeight, cores)

ShardEnd(first, blockHeight, cores, k) ==
    IF k = cores - 1 THEN blockHeight + 1
    ELSE ShardStart(first, blockHeight, cores, k) + ShardSlice(first, blockHeight, cores)

SweepSlice(blockHeight) == ShardSlice(governanceBlock, blockHeight, Cores)
SweepStart(k, blockHeight) == ShardStart(governanceBlock, blockHeight, Cores, k)
SweepEnd(k, blockHeight) == ShardEnd(governanceBlock, blockHeight, Cores, k)

PruneSlice(size) == size \div Cores
PruneStart(k, size) == k * PruneSlice(size)
PruneEnd(k, size) == IF k = Cores - 1 THEN size ELSE PruneStart(k, size) + PruneSlice(size)

(* std::copy(votes.begin(), votes.end(), back_inserter(tmpvotes)): the     *)
(* entries of the map in its iteration order                               *)
RECURSIVE MapToSeq(_)
MapToSeq(m) ==
    IF DOMAIN m = {} THEN <<>>
    ELSE LET k == CHOOSE x \in DOMAIN m : TRUE
         IN  <<m[k]>> \o MapToSeq(MapErase(m, k))

(* a worker that breaks out of its loop without recording the failure *)
FailedKept(failed) == failed

(* what a worker stores into "failed" when it observes ShutdownRequested() *)
FailedOnShutdown(failed) == TRUE

(***************************************************************************)
(* getTally(proposal, votes, params)                                       *)
(***************************************************************************)
voteBalance == 100

ZeroTally == [cyes |-> 0, cno |-> 0, cabstain |-> 0, yes |-> 0, no |-> 0, abstain |-> 0]

RECURSIVE SumAmounts(_)
SumAmounts(S) ==
    IF S = {} THEN 0
    ELSE LET v == CHOOSE x \in S : TRUE
         IN  v.amount + SumAmounts(S \ {v})

(* a tally whose counts are the coin totals themselves *)
GroupTallyUndivided(allUnique) ==
    [cyes |-> SumAmounts({v \in allUnique : v.vote = YES}),
     cno |-> SumAmounts({v \in allUnique : v.vote = NO}),
     cabstain |-> SumAmounts({v \in allUnique : v.vote = ABSTAIN}),
     yes |-> SumAmounts({v \in allUnique : v.vote = YES}),
     no |-> SumAmounts({v \in allUnique : v.vote = NO}),
     abstain |-> SumAmounts({v \in allUnique : v.vote = ABSTAIN})]

(* the Tally of one identity set: coin totals, then the integer counts *)
GroupTally(allUnique) ==
    LET cyes == SumAmounts({v \in allUnique : v.vote = YES})
        cno == SumAmounts({v \in allUnique : v.vote = NO})
        cabstain == SumAmounts({v \in allUnique : v.vote = ABSTAIN})
    IN  [cyes |-> cyes, cno |-> cno, cabstain |-> cabstain,
         yes |-> cyes \div voteBalance, no |-> cno \div voteBalance,
         abstain |-> cabstain \div voteBalance]

AddTally(a, b) ==
    [cyes |-> a.cyes + b.cyes, cno |-> a.cno + b.cno, cabstain |-> a.cabstain + b.cabstain,
     yes |-> a.yes + b.yes, no |-> a.no + b.no, abstain |-> a.abstain + b.abstain]

(* userVotes[hash]: the votes carried by one transaction *)
UserVotes(pv, hash) == {v \in pv : v.outpoint.hash = hash}

(* userVotesDest[dest]: the votes signed by one key *)
UserVotesDest(pv, dest) == {v \in pv : v.pubkey = dest}

(* the loop over userVotes; order lists the transaction hashes in the      *)
(* iteration order of the map, acc is the sum of the tallies pushed so far *)
RECURSIVE TallyLoop(_, _, _, _, _)
TallyLoop(pv, order, i, counted, acc) ==
    IF i > Len(order) THEN acc
    ELSE LET item == UserVotes(pv, order[i])
             linked == UNION {UserVotesDest(pv, v.pubkey) : v \in item}
             allUnique == (item \cup linked) \ counted
         IN  IF allUnique = {}
             THEN TallyLoop(pv, order, i + 1, counted, acc)
             ELSE TallyLoop(pv, order, i + 1, counted \cup allUnique,
                            AddTally(acc, GroupTally(allUnique)))

(* the identity sets (allUnique) the loop over userVotes tallies, in the    *)
(* order in which their tallies are pushed                                 *)
RECURSIVE IdentitySets(_, _, _, _)
IdentitySets(pv, order, i, counted) ==
    IF i > Len(order) THEN <<>>
    ELSE LET item == UserVotes(pv, order[i])
             linked == UNION {UserVotesDest(pv, v.pubkey) : v \in item}
             allUnique == (item \cup linked) \ counted
         IN  IF allUnique = {}
             THEN IdentitySets(pv, order, i + 1, counted)
             ELSE <<allUnique>> \o IdentitySets(pv, order, i + 1, counted \cup allUnique)

(* a tally that takes every vote of the vector, whatever its proposal *)
getTallyOfAll(proposal, vts, order) == TallyLoop(vts, order, 1, {}, ZeroTally)

(* votes: the vector passed in, its entries having distinct digests as the *)
(* entries of the store have                                               *)
getTally(proposal, vts, order) ==
    LET proposalVotes == {v \in vts : v.proposal = proposal}
    IN  TallyLoop(proposalVotes, order, 1, {}, ZeroTally)

(* Inputs of getTally: each coin votes or not, in one of two transactions; *)
(* the order of the two transaction hashes is either                       *)
TallyCoins == {1, 2, 4, 5, 6}
TallyTxs == {"t1", "t2"}
TallyOrders == {<<"t1", "t2">>, <<"t2", "t1">>}
TallyOptions ==
    {[cast |-> FALSE, vote |-> NO, tx |-> "t1"]}
    \cup {[cast |-> TRUE, vote |-> x, tx |-> t] : x \in {NO, YES, ABSTAIN}, t \in TallyTxs}

TallyVote(utxo, vote, txid) ==
    ReadVote(VoteData(AlphaHash, vote, utxo, CoinTable[utxo].keyid).data,
             [hash |-> txid, n |-> utxo], 1, 1)

TallyVotes(f) == {TallyVote(c, f[c].vote, f[c].tx) : c \in {d \in TallyCoins : f[d].cast}}

(***************************************************************************)
(* State                                                                   *)
(*   chain              the active chain (chainActive), heights 1..Len     *)
(*   proposals, votes   the two maps of the store                          *)
(*   shutdown           ShutdownRequested()                                *)
(*   loader             loadGovernanceData: phase, failed, tmpvotes, the   *)
(*                      value returned                                     *)
(*   workers            the threads of the current pass: position in the   *)
(*                      loop, next index, end index, extracted data        *)
(*   mu                 the holder of the mutex of the store               *)
(*   handler            the dispatcher thread inside BlockConnected /      *)
(*                      BlockDisconnected: position, block, height, the    *)
(*                      sets ps and vs, the store when mu was acquired     *)
(*   snap               what the last query of a reader thread returned,   *)
(*                      and where the handler was at that moment           *)
(*   since              a thread inside getProposalsSince: position,       *)
(*                      sinceBlock, the two vectors read so far, and the   *)
(*                      states the store went through during the call      *)
(*   call               one call of a static function of the class: its    *)
(*                      name, its arguments and, once made, its result     *)
(***************************************************************************)
VARIABLES chain, proposals, votes, shutdown, loader, workers, mu, handler, snap, since, call

vars == <<chain, proposals, votes, shutdown, loader, workers, mu, handler, snap, since, call>>

store == <<proposals, votes>>
bootVars == <<shutdown, loader, workers>>
concVars == <<mu, handler, snap, since, call>>

Height == Len(chain)

NoData == [ps |-> {}, vs |-> {}]
IdleWorker == [st |-> "none", next |-> 0, end |-> 0, data |-> NoData]
IdleLoader == [phase |-> "idle", failed |-> FALSE, tmpvotes |-> <<>>, result |-> "none"]
NoBlock == [time |-> 0, vtx |-> <<>>]
EmptyStore == [proposals |-> EmptyMap, votes |-> EmptyMap]
IdleHandler == [pc |-> "idle", block |-> NoBlock, height |-> 0, data |-> NoData, pre |-> EmptyStore]
IdleSince == [pc |-> "idle", sinceBlock |-> 0, proposals |-> EmptyMap, votes |-> EmptyMap,
              allProposals |-> {}, allVotes |-> {}, seen |-> {}]
NoCall == [fn |-> "none"]
NoSnap == [taken |-> FALSE, proposals |-> EmptyMap, votes |-> EmptyMap,
           pc |-> "idle", block |-> NoBlock, data |-> NoData, pre |-> EmptyStore]

(* the node after construction of the Governance object, no thread inside *)
Quiet ==
    /\ chain = <<>>
    /\ proposals = EmptyMap
    /\ votes = EmptyMap
    /\ shutdown = FALSE
    /\ loader = IdleLoader
    /\ workers = [k \in Workers |-> IdleWorker]
    /\ mu = "free"
    /\ handler = IdleHandler
    /\ snap = NoSnap
    /\ since = IdleSince

Init == Quiet /\ call = NoCall

(***************************************************************************)
(* The chain listener in live operation: the dispatcher delivers one event *)
(* at a time                                                               *)
(***************************************************************************)
(* BlockConnected for the block that extends the tip; a block never spends *)
(* an outpoint that is already spent                                       *)
BlockConnected(block) ==
    /\ loader.phase = "idle"
    /\ Len(chain) < MaxHeight
    /\ BlockPrevouts(block) \cap SpentOnChain(chain) = {}
    /\ LET ch == Append(chain, block)
           st == ConnectStore(proposals, votes, block, Len(ch), SpentOnChain(ch))
       IN  /\ chain' = ch
           /\ proposals' = st.proposals
           /\ votes' = st.votes
    /\ UNCHANGED <<bootVars, concVars>>

(* BlockDisconnected for the tip *)
BlockDisconnected ==
    /\ loader.phase = "idle"
    /\ chain # <<>>
    /\ LET block == chain[Len(chain)]
           ch == SubSeq(chain, 1, Len(chain) - 1)
           st == DisconnectStore(proposals, votes, block, SpentOnChain(ch))
       IN  /\ chain' = ch
           /\ proposals' = st.proposals
           /\ votes' = st.votes
    /\ UNCHANGED <<bootVars, concVars>>

(* Governance::reset *)
reset ==
    /\ loader.phase = "idle"
    /\ proposals' = EmptyMap
    /\ votes' = EmptyMap
    /\ UNCHANGED <<chain, bootVars, concVars>>

Next ==
    \/ \E block \in BlockInputs : BlockConnected(block)
    \/ BlockDisconnected

Spec == Init /\ [][Next]_vars

(***************************************************************************)
(* loadGovernanceData                                                      *)
(***************************************************************************)
BootInit ==
    /\ chain \in BootChains
    /\ proposals = EmptyMap
    /\ votes = EmptyMap
    /\ shutdown = FALSE
    /\ loader = [IdleLoader EXCEPT !.phase = "start"]
    /\ workers = [k \in Workers |-> IdleWorker]
    /\ mu = "free"
    /\ handler = IdleHandler
    /\ snap = NoSnap
    /\ since = IdleSince
    /\ call = NoCall

(* reads the height; returns at once or spawns the sweep workers *)
LoadStart ==
    /\ loader.phase = "start"
    /\ IF NothingToLoad(Len(chain), governanceBlock)
       THEN /\ loader' = [loader EXCEPT !.phase = "done", !.result = "true"]
            /\ UNCHANGED workers
       ELSE /\ loader' = [loader EXCEPT !.phase = "sweep"]
            /\ workers' = [k \in Workers |->
                             [st |-> "loop", next |-> SweepStart(k, Len(chain)),
                              end |-> SweepEnd(k, Len(chain)), data |-> NoData]]
    /\ UNCHANGED <<chain, store, shutdown, concVars>>

(* the shutdown signal is raised while the loader runs *)
RequestShutdown ==
    /\ loader.phase \in {"sweep", "prune"}
    /\ ~shutdown
    /\ shutdown' = TRUE
    /\ UNCHANGED <<chain, store, loader, workers, concVars>>

(* top of the loop of either pass: ShutdownRequested() is true.  The store *)
(* of true into "failed" is not ordered with the stores of other workers;  *)
(* every one of them stores true.                                          *)
ObserveShutdown(k) ==
    /\ loader.phase \in {"sweep", "prune"}
    /\ workers[k].st = "loop" /\ workers[k].next < workers[k].end
    /\ shutdown
    /\ loader' = [loader EXCEPT !.failed = FailedOnShutdown(loader.failed)]
    /\ workers' = [workers EXCEPT ![k].st = "broke"]
    /\ UNCHANGED <<chain, store, shutdown, concVars>>

(* sweep: block index and block are read, dataFromBlock runs (the block    *)
(* index is passed on, so the cutoffs apply)                               *)
SweepExtract(k) ==
    /\ loader.phase = "sweep"
    /\ workers[k].st = "loop" /\ workers[k].next < workers[k].end
    /\ ~shutdown
    /\ workers' = [workers EXCEPT
          ![k].st = "extracted",
          ![k].data = dataFromBlock(chain[workers[k].next], workers[k].next,
                                    proposals, SpentOnChain(chain))]
    /\ UNCHANGED <<chain, store, shutdown, loader, concVars>>

(* sweep: ReadBlockFromDisk fails *)
SweepReadFails(k) ==
    /\ loader.phase = "sweep"
    /\ workers[k].st = "loop" /\ workers[k].next < workers[k].end
    /\ ~shutdown
    /\ loader' = [loader EXCEPT !.failed = TRUE]
    /\ workers' = [workers EXCEPT ![k].st = "returned"]
    /\ UNCHANGED <<chain, store, shutdown, concVars>>

(* sweep: the critical section of BlockConnected *)
SweepMerge(k) ==
    /\ loader.phase = "sweep"
    /\ workers[k].st = "extracted"
    /\ LET st == ConnectMerge(proposals, votes, workers[k].data, chain[workers[k].next])
       IN  /\ proposals' = st.proposals
           /\ votes' = st.votes
    /\ workers' = [workers EXCEPT ![k].st = "loop", ![k].next = @ + 1, ![k].data = NoData]
    /\ UNCHANGED <<chain, shutdown, loader, concVars>>

(* prune: one vote of the snapshot is examined (no mempool check) *)
PruneVote(k) ==
    /\ loader.phase = "prune"
    /\ workers[k].st = "loop" /\ workers[k].next < workers[k].end
    /\ ~shutdown
    /\ LET vote == loader.tmpvotes[workers[k].next + 1]
       IN  /\ votes' = IF IsUTXOSpent(vote.utxo, SpentOnChain(chain))
                       THEN MapErase(votes, getHash(vote)) ELSE votes
    /\ workers' = [workers EXCEPT ![k].next = @ + 1]
    /\ UNCHANGED <<chain, proposals, shutdown, loader, concVars>>

(* either pass: the loop of a worker ends *)
WorkerExit(k) ==
    /\ loader.phase \in {"sweep", "prune"}
    /\ workers[k].st = "loop" /\ workers[k].next >= workers[k].end
    /\ workers' = [workers EXCEPT ![k].st = "finished"]
    /\ UNCHANGED <<chain, store, shutdown, loader, concVars>>

AllJoined == \A k \in Workers : workers[k].st \in {"broke", "returned", "finished"}

(* tg.join_all() after the sweep: return, or copy the votes and spawn the  *)
(* pruning workers                                                         *)
JoinSweep ==
    /\ loader.phase = "sweep"
    /\ AllJoined
    /\ IF DOMAIN votes = {} \/ loader.failed
       THEN /\ loader' = [loader EXCEPT !.phase = "done",
                             !.result = IF loader.failed THEN "false" ELSE "true"]
            /\ UNCHANGED workers
       ELSE /\ loader' = [loader EXCEPT !.phase = "prune", !.tmpvotes = MapToSeq(votes)]
            /\ workers' = [k \in Workers |->
                             [st |-> "loop", next |-> PruneStart(k, Cardinality(DOMAIN votes)),
                              end |-> PruneEnd(k, Cardinality(DOMAIN votes)), data |-> NoData]]
    /\ UNCHANGED <<chain, store, shutdown, concVars>>

(* tg.join_all() after the pruning pass: return !failed *)
JoinPrune ==
    /\ loader.phase = "prune"
    /\ AllJoined
    /\ loader' = [loader EXCEPT !.phase = "done",
                     !.result = IF loader.failed THEN "false" ELSE "true"]
    /\ UNCHANGED <<chain, store, shutdown, workers, concVars>>

BootNext ==
    \/ LoadStart
    \/ RequestShutdown
    \/ \E k \in Workers : ObserveShutdown(k)
    \/ \E k \in Workers : SweepExtract(k)
    \/ \E k \in Workers : SweepReadFails(k)
    \/ \E k \in Workers : SweepMerge(k)
    \/ \E k \in Workers : PruneVote(k)
    \/ \E k \in Workers : WorkerExit(k)
    \/ JoinSweep
    \/ JoinPrune

SpecBoot == BootInit /\ [][BootNext]_vars

(* the store under every operation that changes it: startup on any of the  *)
(* chains, or live operation with reset                                    *)
StoreNext == Next \/ reset \/ BootNext

SpecStore == (Init \/ BootInit) /\ [][StoreNext]_vars

(***************************************************************************)
(* Live operation at the grain of the mutex: the dispatcher thread runs    *)
(* one handler at a time, statement group by statement group, while a      *)
(* reader thread calls the queries of the store                            *)
(***************************************************************************)
ConcMaxHeight == 3

(* the states the store goes through while a getProposalsSince call is     *)
(* between its two reads (kept for the properties only)                    *)
SeenBySince(reader, props, vts) ==
    IF reader.pc = "votes"
    THEN [reader EXCEPT !.seen = @ \cup {[proposals |-> props, votes |-> vts]}]
    ELSE reader

ConcBlockInputs ==
    {[time |-> 1, vtx |-> <<ProposalTx>>],
     [time |-> 1, vtx |-> <<ProposalTx, VoteTx(1, <<YES>>)>>],
     [time |-> 2, vtx |-> <<VoteTx(1, <<NO>>)>>],
     [time |-> 1, vtx |-> <<SpendTx(1)>>]}

(* the dispatcher calls BlockConnected for a block that extends the tip *)
ConnDeliver(block) ==
    /\ loader.phase = "idle"
    /\ handler.pc = "idle"
    /\ Len(chain) < ConcMaxHeight
    /\ BlockPrevouts(block) \cap SpentOnChain(chain) = {}
    /\ chain' = Append(chain, block)
    /\ handler' = [IdleHandler EXCEPT !.pc = "extract", !.block = block,
                                      !.height = Len(chain) + 1]
    /\ UNCHANGED <<store, bootVars, call, mu, snap, since>>

(* dataFromBlock(block, ps, vs, pindex): outside the critical section; the *)
(* proposal lookups of the vote cutoff take mu one at a time               *)
ConnExtract ==
    /\ handler.pc = "extract"
    /\ MuAvailable(mu)
    /\ handler' = [handler EXCEPT !.pc = "lock",
                      !.data = dataFromBlock(handler.block, handler.height,
                                             proposals, SpentOnChain(chain))]
    /\ UNCHANGED <<chain, store, bootVars, call, mu, snap, since>>

(* LOCK(mu) of BlockConnected *)
ConnLock ==
    /\ handler.pc = "lock"
    /\ MuAvailable(mu)
    /\ mu' = "handler"
    /\ handler' = [handler EXCEPT !.pc = "props",
                      !.pre = [proposals |-> proposals, votes |-> votes]]
    /\ UNCHANGED <<chain, store, bootVars, call, snap, since>>

(* the proposal loop *)
ConnProposals ==
    /\ handler.pc = "props"
    /\ proposals' = InsertProposals(proposals, handler.data.ps)
    /\ handler' = [handler EXCEPT !.pc = "votes"]
    /\ since' = SeenBySince(since, proposals', votes)
    /\ UNCHANGED <<chain, votes, bootVars, call, mu, snap>>

(* the vote loop *)
ConnVotes ==
    /\ handler.pc = "votes"
    /\ votes' = MergeVotes(votes, handler.data.vs, proposals)
    /\ handler' = [handler EXCEPT !.pc = "spent"]
    /\ since' = SeenBySince(since, proposals, votes')
    /\ UNCHANGED <<chain, proposals, bootVars, call, mu, snap>>

(* the prevout set, the erase loop, the end of the critical section and    *)
(* the return                                                              *)
ConnSpent ==
    /\ handler.pc = "spent"
    /\ votes' = RemoveSpentVotes(votes, BlockPrevouts(handler.block))
    /\ mu' = "free"
    /\ handler' = IdleHandler
    /\ since' = SeenBySince(since, proposals, votes')
    /\ UNCHANGED <<chain, proposals, bootVars, call, snap>>

(* the dispatcher calls BlockDisconnected for the tip *)
DiscDeliver ==
    /\ loader.phase = "idle"
    /\ handler.pc = "idle"
    /\ chain # <<>>
    /\ chain' = SubSeq(chain, 1, Len(chain) - 1)
    /\ handler' = [IdleHandler EXCEPT !.pc = "dextract", !.block = chain[Len(chain)],
                                      !.height = NoIndex]
    /\ UNCHANGED <<store, bootVars, call, mu, snap, since>>

(* dataFromBlock(block, ps, vs) of BlockDisconnected *)
DiscExtract ==
    /\ handler.pc = "dextract"
    /\ MuAvailable(mu)
    /\ handler' = [handler EXCEPT !.pc = "derase",
                      !.data = dataFromBlock(handler.block, NoIndex,
                                             proposals, SpentOnChain(chain))]
    /\ UNCHANGED <<chain, store, bootVars, call, mu, snap, since>>

(* the critical section of BlockDisconnected and the return *)
DiscErase ==
    /\ handler.pc = "derase"
    /\ MuAvailable(mu)
    /\ LET st == DisconnectErase(proposals, votes, handler.data)
       IN  /\ proposals' = st.proposals
           /\ votes' = st.votes
    /\ handler' = IdleHandler
    /\ since' = SeenBySince(since, proposals', votes')
    /\ UNCHANGED <<chain, bootVars, call, mu, snap>>

(* a reader thread runs one query (hasVote, getVote, getVotes,             *)
(* getProposals ...): LOCK(mu), read the maps, return.  snap keeps what    *)
(* the maps held, together with the position, the block and the sets ps    *)
(* and vs of the handler at that moment and the store the handler found    *)
(* when it entered its critical section.                                   *)
Query ==
    /\ loader.phase = "idle"
    /\ MuAvailable(mu)
    /\ snap' = [taken |-> TRUE, proposals |-> proposals, votes |-> votes,
                pc |-> handler.pc, block |-> handler.block, data |-> handler.data,
                pre |-> IF handler.pc \in {"props", "votes", "spent"} THEN handler.pre
                        ELSE [proposals |-> proposals, votes |-> votes]]
    /\ UNCHANGED <<chain, store, bootVars, call, mu, handler, since>>

ConcNext ==
    \/ \E block \in ConcBlockInputs : ConnDeliver(block)
    \/ ConnExtract
    \/ ConnLock
    \/ ConnProposals
    \/ ConnVotes
    \/ ConnSpent
    \/ DiscDeliver
    \/ DiscExtract
    \/ DiscErase
    \/ Query

SpecConc == Init /\ [][ConcNext]_vars

(***************************************************************************)
(* getProposalsSince called on a thread of its own while the dispatcher    *)
(* thread runs the handlers                                                *)
(***************************************************************************)
SinceBlocks == {1, 2}

(* the entries of a vector with getBlockNumber() >= sinceBlock *)
SinceFilter(m, sinceBlock) == {x \in MapValues(m) : x.blockNumber >= sinceBlock}

(* auto proposals = instance().getProposals(): LOCK(mu), copy, unlock *)
SinceGetProposals(sinceBlock) ==
    /\ loader.phase = "idle"
    /\ since.pc = "idle"
    /\ MuAvailable(mu)
    /\ since' = [since EXCEPT !.pc = "votes", !.sinceBlock = sinceBlock,
                              !.proposals = proposals,
                              !.seen = {[proposals |-> proposals, votes |-> votes]}]
    /\ UNCHANGED <<chain, store, bootVars, call, mu, handler, snap>>

(* auto votes = instance().getVotes(): LOCK(mu), copy, unlock; then the    *)
(* two filter loops and the return                                         *)
SinceGetVotes ==
    /\ since.pc = "votes"
    /\ MuAvailable(mu)
    /\ since' = [since EXCEPT !.pc = "done", !.votes = votes,
                              !.allProposals = SinceFilter(since.proposals, since.sinceBlock),
                              !.allVotes = SinceFilter(votes, since.sinceBlock)]
    /\ UNCHANGED <<chain, store, bootVars, call, mu, handler, snap>>

SinceNext ==
    \/ \E block \in ConcBlockInputs : ConnDeliver(block)
    \/ ConnExtract
    \/ ConnLock
    \/ ConnProposals
    \/ ConnVotes
    \/ ConnSpent
    \/ DiscDeliver
    \/ DiscExtract
    \/ DiscErase
    \/ \E sinceBlock \in SinceBlocks : SinceGetProposals(sinceBlock)
    \/ SinceGetVotes

(***************************************************************************)
(* Vote::getHash and Vote::sigHash called on two votes                     *)
(***************************************************************************)
BetaHash == ProposalDataHash("beta", 2 * superblock, proposalMaxAmount)

(* the fields of a Vote that its digests cover *)
HashedFields ==
    [version : {NETWORK_VERSION, NETWORK_VERSION + 1}, type : {VOTE},
     proposal : {AlphaHash, BetaHash}, vote : {NO, YES, ABSTAIN}, utxo : {1, 2}]

HashInit ==
    /\ Quiet
    /\ call \in {[fn |-> "hash", a |-> a, b |-> b, done |-> FALSE,
                   hashA |-> <<>>, hashB |-> <<>>, sigHashA |-> <<>>, sigHashB |-> <<>>] :
                      a \in HashedFields, b \in HashedFields}

HashCall ==
    /\ call.fn = "hash" /\ ~call.done
    /\ call' = [call EXCEPT !.done = TRUE,
                            !.hashA = getHash(call.a), !.hashB = getHash(call.b),
                            !.sigHashA = sigHash(call.a), !.sigHashB = sigHash(call.b)]
    /\ UNCHANGED <<chain, store, bootVars, mu, handler, snap, since>>

SpecHash == HashInit /\ [][HashCall]_vars

(***************************************************************************)
(* Governance::meetsCutoff(vote, blockNumber) called at two heights on one *)
(* store                                                                   *)
(***************************************************************************)
MaxCutoffHeight == 8

(* stores to look the proposal up in: none, alpha, alpha and beta *)
CutoffStores ==
    LET alpha == ReadProposal(ProposalData("alpha", superblock, proposalMaxAmount).data, 1)
        beta == ReadProposal(ProposalData("beta", 2 * superblock, proposalMaxAmount).data, 1)
    IN  {EmptyMap, MapPut(EmptyMap, AlphaHash, alpha),
         MapPut(MapPut(EmptyMap, AlphaHash, alpha), BetaHash, beta)}

CutoffInit ==
    /\ Quiet
    /\ call \in {[fn |-> "meetsCutoff", vote |-> v, props |-> ps, h |-> h1, hLow |-> h2,
                   done |-> FALSE, atH |-> FALSE, atLow |-> FALSE] :
                      v \in {x \in HashedFields : x.version = NETWORK_VERSION /\ x.vote = YES},
                      ps \in CutoffStores,
                      h1 \in 0 .. MaxCutoffHeight, h2 \in 0 .. MaxCutoffHeight}

CutoffCall ==
    /\ call.fn = "meetsCutoff" /\ ~call.done
    /\ call' = [call EXCEPT !.done = TRUE,
                            !.atH = meetsCutoffVote(call.vote, call.h, call.props),
                            !.atLow = meetsCutoffVote(call.vote, call.hLow, call.props)]
    /\ UNCHANGED <<chain, store, bootVars, mu, handler, snap, since>>

SpecCutoff == CutoffInit /\ [][CutoffCall]_vars

(***************************************************************************)
(* Live operation on blocks that carry votes dataFromBlock must refuse     *)
(***************************************************************************)
(* a voting transaction with one vote of utxo, signed by signer, whose one *)
(* input shows the key vinKey in its unlocking script (NullKey: none)      *)
SignedVoteTx(utxo, vote, signer, vinKey) ==
    [vin |-> <<FundingIn(vinKey)>>,
     vout |-> <<VoteData(AlphaHash, vote, utxo, signer)>>]

AcceptBlockInputs ==
    {[time |-> 1, vtx |-> <<ProposalTx>>],
     [time |-> 1, vtx |-> <<VoteTx(1, <<YES>>)>>],
     [time |-> 1, vtx |-> <<SignedVoteTx(2, YES, "kB", "kA")>>],
     [time |-> 1, vtx |-> <<SignedVoteTx(2, YES, "kB", NullKey)>>],
     [time |-> 1, vtx |-> <<SignedVoteTx(1, YES, "kB", "kB")>>],
     [time |-> 1, vtx |-> <<SignedVoteTx(3, YES, "kA", "kA")>>],
     [time |-> 1, vtx |-> <<SignedVoteTx(1, ABSTAIN + 1, "kA", "kA")>>]}

AcceptNext ==
    \/ \E block \in AcceptBlockInputs : BlockConnected(block)
    \/ BlockDisconnected

SpecAccept == Init /\ [][AcceptNext]_vars

SpecSince == Init /\ [][SinceNext]_vars

(***************************************************************************)
(* One call of getTally on a vector of votes                               *)
(***************************************************************************)
TallyInit ==
    /\ Quiet
    /\ call \in {[fn |-> "getTally", proposal |-> AlphaHash, votes |-> TallyVotes(f),
                   order |-> o, done |-> FALSE, tally |-> ZeroTally] :
                      f \in [TallyCoins -> TallyOptions], o \in TallyOrders}

TallyCall ==
    /\ call.fn = "getTally" /\ ~call.done
    /\ call' = [call EXCEPT !.done = TRUE,
                            !.tally = getTally(call.proposal, call.votes, call.order)]
    /\ UNCHANGED <<chain, store, bootVars, mu, handler, snap, since>>

SpecTally == TallyInit /\ [][TallyCall]_vars

(***************************************************************************)
(* getTally on a vector with votes on two proposals: coins 1 and 7 have    *)
(* one key, coin 2 another; each coin votes on alpha, on beta or not at    *)
(* all, in one of two transactions                                         *)
(***************************************************************************)
MixedCoins == {1, 2, 7}
MixedOptions ==
    {[cast |-> FALSE, proposal |-> AlphaHash, vote |-> NO, tx |-> "t1"]}
    \cup {[cast |-> TRUE, proposal |-> h, vote |-> x, tx |-> t] :
             h \in {AlphaHash, BetaHash}, x \in {NO, YES, ABSTAIN}, t \in TallyTxs}

MixedVote(utxo, opt) ==
    ReadVote(VoteData(opt.proposal, opt.vote, utxo, CoinTable[utxo].keyid).data,
             [hash |-> opt.tx, n |-> utxo], 1, 1)

MixedVotes(f) == {MixedVote(c, f[c]) : c \in {d \in MixedCoins : f[d].cast}}

MixedInit ==
    /\ Quiet
    /\ call \in {[fn |-> "getTally", proposal |-> AlphaHash, votes |-> MixedVotes(f),
                   order |-> o, done |-> FALSE, tally |-> ZeroTally] :
                      f \in [MixedCoins -> MixedOptions], o \in TallyOrders}

SpecTallyMixed == MixedInit /\ [][TallyCall]_vars

(***************************************************************************)
(* submitVotes                                                             *)
(***************************************************************************)
VOTING_UTXO_INPUT_AMOUNT == 5
MAX_OP_RETURN_IN_TRANSACTION == 2

(* static_cast<CAmount>((double)voteMinAmount*0.6) *)
VoteInputThreshold(voteMinAmount) == (voteMinAmount * 6) \div 10

(* GetMinimumFee(...) / inputCoins.size(), as the fee estimator answers *)
estimatedFeePerInput == 1

(* a store that is never found to hold a vote *)
hasVoteNever(vts, proposal, utxo) == FALSE

(* Governance::hasVote(proposal, utxo) *)
hasVote(vts, proposal, utxo) ==
    \E k \in DOMAIN vts : vts[k].utxo = utxo /\ vts[k].proposal = proposal

(* a COutput of AvailableCoins *)
WalletCoin(utxo, spendable) ==
    [outpoint |-> utxo, keyid |-> CoinTable[utxo].keyid,
     amount |-> CoinTable[utxo].amount, fSpendable |-> spendable]

(* CWallet::GetBalance *)
GetBalance(wallet) == SumAmounts({c \in wallet.coins : c.fSpendable})

(* std::sort by nValue: every order of the coins that ascends by value;    *)
(* the order of coins of equal value is not determined                     *)
RECURSIVE Orderings(_)
Orderings(S) ==
    IF S = {} THEN {<<>>}
    ELSE UNION {{<<x>> \o s : s \in Orderings(S \ {x})} : x \in S}

SortedAscending(S) ==
    {s \in Orderings(S) : \A i \in 1 .. (Len(s) - 1) : s[i].amount <= s[i + 1].amount}

(* the selection loop over the sorted coins; acc = [inputCoins, filtered] *)
RECURSIVE SelectCoins(_, _, _, _)
SelectCoins(coins, i, voteMinAmount, acc) ==
    IF i > Len(coins) THEN acc
    ELSE LET coin == coins[i] IN
         IF ~coin.fSpendable THEN SelectCoins(coins, i + 1, voteMinAmount, acc)
         ELSE IF coin.keyid \notin DOMAIN acc.inputCoins
                 /\ coin.amount >= VoteInputThreshold(voteMinAmount)
         THEN SelectCoins(coins, i + 1, voteMinAmount,
                          [acc EXCEPT !.inputCoins = MapPut(@, coin.keyid, coin)])
         ELSE IF coin.amount < voteMinUtxoAmount
         THEN SelectCoins(coins, i + 1, voteMinAmount, acc)
         ELSE SelectCoins(coins, i + 1, voteMinAmount,
                          [acc EXCEPT !.filtered = Append(@, coin)])

(* Vote(proposal, vote, utxo) signed with the key of the coin *)
WalletVote(pv, coin) ==
    LET base == [version |-> NETWORK_VERSION, type |-> VOTE,
                 proposal |-> ProposalHash(pv.proposal), vote |-> pv.vote,
                 utxo |-> coin.outpoint]
        signature == <<coin.keyid, sigHash(base)>>
    IN  [version |-> base.version, type |-> base.type, proposal |-> base.proposal,
         vote |-> base.vote, utxo |-> base.utxo, signature |-> signature,
         pubkey |-> RecoverCompact(sigHash(base), signature),
         amount |-> coin.amount, keyid |-> coin.keyid]

(* Vote::isValid as the wallet sees it: the coin view is the chain with    *)
(* the mempool on top, avail the outpoints that view holds unspent         *)
VoteIsValidInWallet(v, avail) ==
    /\ v.version = NETWORK_VERSION /\ v.type = VOTE /\ isValidVoteType(v.vote)
    /\ v.amount >= voteMinUtxoAmount
    /\ v.keyid # NullKey
    /\ v.pubkey = v.keyid
    /\ v.utxo \in avail

(* the two loops without the test of voteOuts.size(): every vote that can  *)
(* be made goes into the one transaction                                   *)
RECURSIVE VoteLoopUnbounded(_, _, _, _, _, _, _)
VoteLoopUnbounded(filtered, pvs, i, j, vts, avail, acc) ==
    IF i > Len(filtered) THEN acc
    ELSE IF j > Len(pvs) THEN VoteLoopUnbounded(filtered, pvs, i + 1, 1, vts, avail, acc)
    ELSE LET coin == filtered[i]
             pv == pvs[j]
             hash == ProposalHash(pv.proposal)
             vote == WalletVote(pv, coin)
         IN  IF <<coin.outpoint, hash>> \in acc.usedUtxos
                \/ hasVote(vts, hash, coin.outpoint)
                \/ ~VoteIsValidInWallet(vote, avail)
             THEN VoteLoopUnbounded(filtered, pvs, i, j + 1, vts, avail, acc)
             ELSE VoteLoopUnbounded(filtered, pvs, i, j + 1, vts, avail,
                      [voteOuts |-> Append(acc.voteOuts,
                                           VoteData(hash, pv.vote, coin.outpoint, coin.keyid)),
                       usedUtxos |-> acc.usedUtxos \cup {<<coin.outpoint, hash>>},
                       completelyDone |-> (i = Len(filtered) /\ j = Len(pvs))])

(* the two loops that fill voteOuts, from (filtered[i], proposals[j]) on;  *)
(* acc = [voteOuts, usedUtxos, completelyDone]                             *)
RECURSIVE VoteLoop(_, _, _, _, _, _, _)
VoteLoop(filtered, pvs, i, j, vts, avail, acc) ==
    IF i > Len(filtered) THEN acc
    ELSE IF j > Len(pvs) THEN VoteLoop(filtered, pvs, i + 1, 1, vts, avail, acc)
    ELSE LET coin == filtered[i]
             pv == pvs[j]
             hash == ProposalHash(pv.proposal)
             vote == WalletVote(pv, coin)
         IN  IF <<coin.outpoint, hash>> \in acc.usedUtxos
                \/ hasVote(vts, hash, coin.outpoint)
                \/ ~VoteIsValidInWallet(vote, avail)
             THEN VoteLoop(filtered, pvs, i, j + 1, vts, avail, acc)
             ELSE LET acc1 ==
                          [voteOuts |-> Append(acc.voteOuts,
                                               VoteData(hash, pv.vote, coin.outpoint, coin.keyid)),
                           usedUtxos |-> acc.usedUtxos \cup {<<coin.outpoint, hash>>},
                           completelyDone |-> (i = Len(filtered) /\ j = Len(pvs))]
                  IN  IF Len(acc1.voteOuts) = MAX_OP_RETURN_IN_TRANSACTION
                         /\ ~acc1.completelyDone
                      THEN acc1
                      ELSE VoteLoop(filtered, pvs, i, j + 1, vts, avail, acc1)

(* iteration of std::map<CKeyID, const COutput*>: by key *)
RECURSIVE KeySeq(_)
KeySeq(S) ==
    IF S = {} THEN <<>>
    ELSE LET k == CHOOSE x \in S : TRUE IN <<k>> \o KeySeq(S \ {k})

(* the voting transaction: one input per input coin, the vote outputs, and *)
(* one output per input coin that pays it back less its share of the fee   *)
VotingTx(inputCoins, voteOuts) ==
    LET keys == KeySeq(DOMAIN inputCoins)
    IN  [vin |-> [n \in DOMAIN keys |->
                     [prevout |-> inputCoins[keys[n]].outpoint, pubkey |-> keys[n]]],
         vout |-> voteOuts \o
                  [n \in DOMAIN keys |->
                      [op |-> "pay", keyid |-> keys[n],
                       amount |-> inputCoins[keys[n]].amount - estimatedFeePerInput]]]

(* the outpoint of output n of the txNumber-th transaction of the call: a  *)
(* number no coin of CoinTable bears                                       *)
NewOutpoint(txNumber, n) == 10 * txNumber + n

(* the coins of the wallet once tx is committed: its inputs are spent, its *)
(* paying outputs are new coins of the wallet                              *)
CommitTransaction(coins, tx, txNumber) ==
    {c \in coins : c.outpoint \notin TxPrevouts(tx)}
    \cup {[outpoint |-> NewOutpoint(txNumber, n), keyid |-> tx.vout[n].keyid,
           amount |-> tx.vout[n].amount, fSpendable |-> TRUE] :
              n \in {m \in DOMAIN tx.vout : tx.vout[m].op = "pay"}}

(* one pass of the do-while body up to the point where the transaction is  *)
(* to be created: "break" or the transaction to create.  completelyDone is *)
(* false whenever a pass begins: the loop repeats while it is false        *)
VotePass(wallet, coins, pvs, voteMinAmount, usedUtxos, vts) ==
    IF coins = <<>> THEN [kind |-> "break"]
    ELSE LET sel == SelectCoins(coins, 1, voteMinAmount,
                                [inputCoins |-> EmptyMap, filtered |-> <<>>])
         IN  IF sel.filtered = <<>> \/ DOMAIN sel.inputCoins = {} THEN [kind |-> "break"]
             ELSE LET out == VoteLoop(sel.filtered, pvs, 1, 1, vts,
                                      {c.outpoint : c \in wallet.coins},
                                      [voteOuts |-> <<>>, usedUtxos |-> usedUtxos,
                                       completelyDone |-> FALSE])
                  IN  IF out.voteOuts = <<>> THEN [kind |-> "break"]
                      ELSE [kind |-> "tx", tx |-> VotingTx(sel.inputCoins, out.voteOuts),
                            usedUtxos |-> out.usedUtxos,
                            completelyDone |-> out.completelyDone]

(* the call: the arguments, the caller's failReason and txsRet, the locals *)
(* of the function and the wallets it works on                             *)
(* voteMinAmount is gArgs.GetArg("-voteinputamount", VOTING_UTXO_INPUT_AMOUNT) *)
SubmitCallWith(pvs, vwallets, loaded, voteinputamount) ==
    /\ call = NoCall
    /\ call' = [fn |-> "submitVotes", pc |-> "entry", proposals |-> pvs,
                vwallets |-> vwallets, loaded |-> loaded,
                voteMinAmount |-> voteinputamount,
                wallets |-> IF vwallets = <<>> THEN loaded ELSE vwallets,
                w |-> 0, usedUtxos |-> {},
                txsRet |-> <<>>, txCounter |-> 0, failReason |-> "", ret |-> "none"]
    /\ UNCHANGED <<chain, store, bootVars, mu, handler, snap, since>>

SubmitFail(reason) ==
    [call EXCEPT !.failReason = reason, !.ret = "false", !.pc = "returned"]

(* the call with -voteinputamount not set *)
SubmitCall(pvs, vwallets, loaded) ==
    SubmitCallWith(pvs, vwallets, loaded, VOTING_UTXO_INPUT_AMOUNT)

(* from the entry of the function to the wallet loop *)
SubmitEnter ==
    /\ call.fn = "submitVotes" /\ call.pc = "entry"
    /\ call' =
         IF call.proposals = <<>>
         THEN [call EXCEPT !.ret = "false", !.pc = "returned"]
         ELSE IF \E j \in DOMAIN call.proposals : ~ProposalIsValid(call.proposals[j].proposal)
         THEN SubmitFail("Failed to vote on proposal because it's invalid")
         ELSE IF call.wallets = <<>>
         THEN SubmitFail("No wallets were found")
         ELSE IF \E n \in DOMAIN call.wallets : call.wallets[n].locked
         THEN SubmitFail("All wallets must be unlocked to vote")
         ELSE IF SumAmounts({[n |-> n, amount |-> GetBalance(call.wallets[n])] :
                                n \in DOMAIN call.wallets}) < voteBalance
         THEN SubmitFail("Not enough coin to cast a vote")
         ELSE [call EXCEPT !.pc = "wallet", !.w = 1]
    /\ UNCHANGED <<chain, store, bootVars, mu, handler, snap, since>>

(* what CreateTransaction, the g_connman test and CommitTransaction answer *)
SubmitOutcomes == {"committed", "create failed", "no connman", "rejected"}

(* one pass of the do-while body for the wallet at hand *)
SubmitPass ==
    /\ call.fn = "submitVotes" /\ call.pc = "wallet" /\ call.w <= Len(call.wallets)
    /\ \E coins \in SortedAscending(call.wallets[call.w].coins), outcome \in SubmitOutcomes :
         LET pass == VotePass(call.wallets[call.w], coins, call.proposals, call.voteMinAmount,
                              call.usedUtxos, votes)
         IN  call' =
               IF pass.kind = "break"
               THEN [call EXCEPT !.w = @ + 1]
               ELSE IF outcome = "create failed"
               THEN SubmitFail("Failed to create the proposal submission transaction")
               ELSE IF outcome = "no connman"
               THEN SubmitFail("Peer-to-peer functionality missing or disabled")
               ELSE IF outcome = "rejected"
               THEN SubmitFail("Failed to create the proposal submission transaction, it was rejected")
               ELSE [call EXCEPT
                        !.wallets[call.w].coins = CommitTransaction(@, pass.tx, call.txCounter + 1),
                        !.txsRet = Append(@, pass.tx),
                        !.txCounter = @ + 1,
                        !.usedUtxos = pass.usedUtxos,
                        !.w = IF pass.completelyDone THEN @ + 1 ELSE @]
    /\ UNCHANGED <<chain, store, bootVars, mu, handler, snap, since>>

(* after the wallet loop *)
SubmitLeave ==
    /\ call.fn = "submitVotes" /\ call.pc = "wallet" /\ call.w > Len(call.wallets)
    /\ call' =
         IF call.txCounter = 0
         THEN SubmitFail("Failed to submit votes, no votes were created")
         ELSE [call EXCEPT !.ret = "true", !.pc = "returned"]
    /\ UNCHANGED <<chain, store, bootVars, mu, handler, snap, since>>

(* the proposals a caller votes on *)
SubmitVoteOn(name, sb, vote) ==
    [proposal |-> ReadProposal(ProposalData(name, sb, proposalMaxAmount).data, NoIndex),
     vote |-> vote]

SubmitProposalInputs ==
    {<<>>,
     <<SubmitVoteOn("alpha", superblock, YES)>>,
     <<SubmitVoteOn("alpha", superblock, YES), SubmitVoteOn("beta", 2 * superblock, NO)>>,
     <<SubmitVoteOn("alpha", superblock, YES), SubmitVoteOn("no name", superblock, YES)>>,
     <<SubmitVoteOn("alpha", superblock, YES), SubmitVoteOn("alpha", superblock, NO)>>}

(* the wallets: coins of one key, of two keys with a watch-only coin, a    *)
(* single coin, a locked wallet, a wallet short of voteBalance             *)
WalletA == [locked |-> FALSE,
            coins |-> {WalletCoin(3, TRUE), WalletCoin(1, TRUE), WalletCoin(7, TRUE)}]
WalletE == [locked |-> FALSE,
            coins |-> {WalletCoin(8, TRUE), WalletCoin(6, TRUE), WalletCoin(2, FALSE)}]
WalletB == [locked |-> FALSE, coins |-> {WalletCoin(2, TRUE)}]
WalletLocked == [locked |-> TRUE, coins |-> {WalletCoin(2, TRUE)}]
WalletPoor == [locked |-> FALSE, coins |-> {WalletCoin(3, TRUE)}]

SubmitWalletInputs ==
    {<<>>, <<WalletA>>, <<WalletA, WalletE>>, <<WalletB>>, <<WalletA, WalletLocked>>,
     <<WalletPoor>>}

(* GetWallets() *)
SubmitLoadedInputs == {<<>>, <<WalletE>>}

SubmitBlockInputs ==
    {[time |-> 1, vtx |-> <<ProposalTx>>],
     [time |-> 1, vtx |-> <<VoteTx(1, <<YES>>)>>]}

SubmitNext ==
    \/ \E block \in SubmitBlockInputs : call = NoCall /\ BlockConnected(block)
    \/ \E pvs \in SubmitProposalInputs, vwallets \in SubmitWalletInputs,
          loaded \in SubmitLoadedInputs : SubmitCall(pvs, vwallets, loaded)
    \/ SubmitEnter
    \/ SubmitPass
    \/ SubmitLeave

SpecSubmit == Init /\ [][SubmitNext]_vars

(***************************************************************************)
(* The vote loop of BlockConnected on two votes with one digest, taken in  *)
(* either order                                                            *)
(***************************************************************************)
(* the vote of utxo on alpha that dataFromBlock extracts from the block of *)
(* the given time and height                                               *)
MergeInput(utxo, vote, time, height) ==
    ReadVote(VoteData(AlphaHash, vote, utxo, CoinTable[utxo].keyid).data,
             [hash |-> VoteTx(utxo, <<vote>>), n |-> 1], time, height)

(* the proposal map once alpha is connected *)
MergeProposals ==
    MapPut(EmptyMap, AlphaHash,
           ReadProposal(ProposalData("alpha", superblock, proposalMaxAmount).data, 1))

MergeInit ==
    /\ Quiet
    /\ call \in {[fn |-> "merge", v1 |-> MergeInput(u, x1, t1, 2),
                   v2 |-> MergeInput(u, x2, t2, 3), done |-> FALSE,
                   v1v2 |-> EmptyMap, v2v1 |-> EmptyMap] :
                      u \in {1, 2}, x1 \in {NO, YES, ABSTAIN}, x2 \in {NO, YES, ABSTAIN},
                      t1 \in Times, t2 \in Times}

MergeCall ==
    /\ call.fn = "merge" /\ ~call.done
    /\ call' = [call EXCEPT
                   !.done = TRUE,
                   !.v1v2 = MergeVote(MergeVote(EmptyMap, call.v1, MergeProposals),
                                      call.v2, MergeProposals),
                   !.v2v1 = MergeVote(MergeVote(EmptyMap, call.v2, MergeProposals),
                                      call.v1, MergeProposals)]
    /\ UNCHANGED <<chain, store, bootVars, mu, handler, snap, since>>

SpecMerge == MergeInit /\ [][MergeCall]_vars

(***************************************************************************)
(* The slices loadGovernanceData hands to its sweep workers, for any first *)
(* governance height, chain height and number of cores                     *)
(***************************************************************************)
MaxShardFirst == 3
MaxShardHeight == 8
MaxShardCores == 4

ShardInit ==
    /\ Quiet
    /\ call \in {[fn |-> "shard", first |-> g, blockHeight |-> h, cores |-> n,
                   done |-> FALSE, result |-> "none", start |-> <<>>, end |-> <<>>] :
                      g \in 1 .. MaxShardFirst, h \in 0 .. MaxShardHeight,
                      n \in 1 .. MaxShardCores}

(* the loop that computes start and end for k = 0 .. cores-1 (kept at      *)
(* index k + 1); not entered when the function returns at once             *)
ShardCall ==
    /\ call.fn = "shard" /\ ~call.done
    /\ call' =
         IF NothingToLoad(call.blockHeight, call.first)
         THEN [call EXCEPT !.done = TRUE, !.result = "true"]
         ELSE [call EXCEPT
                  !.done = TRUE,
                  !.start = [i \in 1 .. call.cores |->
                                ShardStart(call.first, call.blockHeight, call.cores, i - 1)],
                  !.end = [i \in 1 .. call.cores |->
                              ShardEnd(call.first, call.blockHeight, call.cores, i - 1)]]
    /\ UNCHANGED <<chain, store, bootVars, mu, handler, snap, since>>

SpecShard == ShardInit /\ [][ShardCall]_vars

(* the loader on the chains found at startup, and its first steps for any  *)
(* governanceBlock                                                         *)
LoadNext == BootNext \/ ShardCall

SpecLoad == (BootInit \/ ShardInit) /\ [][LoadNext]_vars

(***************************************************************************)
(* One call of Proposal::isValid                                           *)
(***************************************************************************)
MaxProposalSuperblock == 8

ProposalInputs ==
    [version : {NETWORK_VERSION, NETWORK_VERSION + 1}, type : {PROPOSAL, VOTE},
     name : {"alpha", "no/name"},
     superblock : (0 - MaxProposalSuperblock) .. MaxProposalSuperblock,
     amount : {proposalMinAmount - 1, proposalMinAmount, proposalMaxAmount,
               proposalMaxAmount + 1},
     address : {"addr1", "not an address"}, blockNumber : {0}]

IsValidInit ==
    /\ Quiet
    /\ call \in {[fn |-> "isValid", proposal |-> x, done |-> FALSE, valid |-> FALSE] :
                    x \in ProposalInputs}

IsValidCall ==
    /\ call.fn = "isValid" /\ ~call.done
    /\ call' = [call EXCEPT !.done = TRUE, !.valid = ProposalIsValid(call.proposal)]
    /\ UNCHANGED <<chain, store, bootVars, mu, handler, snap, since>>

SpecIsValid == IsValidInit /\ [][IsValidCall]_vars

(***************************************************************************)
(* submitVotes under settings of -voteinputamount: the default and one     *)
(* whose 60% exceeds the amount of the smaller voting coins                *)
(***************************************************************************)
VoteInputAmounts == {VOTING_UTXO_INPUT_AMOUNT, 2 * CoinTable[1].amount}

(* a wallet with one coin of each of two keys *)
WalletAB == [locked |-> FALSE, coins |-> {WalletCoin(1, TRUE), WalletCoin(2, TRUE)}]

SubmitArgWalletInputs == {<<WalletA>>, <<WalletAB>>, <<WalletA, WalletE>>, <<WalletB, WalletA>>}

SubmitArgNext ==
    \/ \E block \in SubmitBlockInputs : call = NoCall /\ BlockConnected(block)
    \/ \E pvs \in SubmitProposalInputs, vwallets \in SubmitArgWalletInputs,
          voteinputamount \in VoteInputAmounts :
            SubmitCallWith(pvs, vwallets, <<>>, voteinputamount)
    \/ SubmitEnter
    \/ SubmitPass
    \/ SubmitLeave

SpecSubmitArg == Init /\ [][SubmitArgNext]_vars

(***************************************************************************)
(* loadGovernanceData with the locks of each thread: every LOCK is a step  *)
(* that waits for the mutex, every end of a locked scope a step that frees *)
(* it.  mu is the mutex of the store; loader.chainMutex is chainMutex, the *)
(* lock IsUTXOSpent takes as well (cs_main).  mut guards "failed" and      *)
(* tmpvotes only, around a single statement, and is taken with that        *)
(* statement.                                                              *)
(***************************************************************************)
Holder(k) == ToString(k)

(* a scope that ends without freeing its mutex *)
ScopeKeepsLock(holder) == holder

(* the end of a scope entered by LOCK *)
ScopeExit(holder) == "free"

(* the block holds a vote payload: dataFromBlock calls vote.isValid, which *)
(* asks IsUTXOSpent, and meetsCutoff, which asks getProposal               *)
HasVotePayload(block) ==
    \E i \in DOMAIN block.vtx : \E n \in DOMAIN block.vtx[i].vout :
        /\ block.vtx[i].vout[n].op = "return"
        /\ block.vtx[i].vout[n].data.version = NETWORK_VERSION
        /\ block.vtx[i].vout[n].data.type = VOTE

(* the mutex the worker is about to take: "none" where its next step takes *)
(* no mutex                                                                *)
WantsLock(w) ==
    IF w.st = "loop" /\ w.next < w.end /\ ~shutdown THEN "chainMutex"
    ELSE IF w.st = "isValid" THEN "chainMutex"
    ELSE IF w.st \in {"meetsCutoff", "extracted", "erase"} THEN "mu"
    ELSE "none"

(* the position of the worker inside the scope it has entered *)
LockedSt(w) ==
    IF w.st = "loop" THEN (IF loader.phase = "sweep" THEN "index" ELSE "coin")
    ELSE IF w.st = "isValid" THEN "IsUTXOSpent"
    ELSE IF w.st = "meetsCutoff" THEN "getProposal"
    ELSE IF w.st = "extracted" THEN "merge"
    ELSE "erasing"

(* LOCK(m): the thread goes on once m is free *)
LockAcquire(k) ==
    /\ loader.phase \in {"sweep", "prune"}
    /\ WantsLock(workers[k]) # "none"
    /\ IF WantsLock(workers[k]) = "mu"
       THEN /\ MuAvailable(mu)
            /\ mu' = Holder(k)
            /\ UNCHANGED loader
       ELSE /\ loader.chainMutex = "free"
            /\ loader' = [loader EXCEPT !.chainMutex = Holder(k)]
            /\ UNCHANGED mu
    /\ workers' = [workers EXCEPT ![k].st = LockedSt(workers[k])]
    /\ UNCHANGED <<chain, store, shutdown, handler, snap, since, call>>

(* the scopes under chainMutex end: the block index is read (sweep), the   *)
(* coin of the vote is looked up (IsUTXOSpent, in either pass)             *)
ChainMutexRelease(k) ==
    /\ workers[k].st \in {"index", "IsUTXOSpent", "coin"}
    /\ loader.chainMutex = Holder(k)
    /\ loader' = [loader EXCEPT !.chainMutex = ScopeExit(@)]
    /\ workers' =
         IF workers[k].st = "index" THEN [workers EXCEPT ![k].st = "read"]
         ELSE IF workers[k].st = "IsUTXOSpent" THEN [workers EXCEPT ![k].st = "meetsCutoff"]
         ELSE IF IsUTXOSpent(loader.tmpvotes[workers[k].next + 1].utxo, SpentOnChain(chain))
         THEN [workers EXCEPT ![k].st = "erase"]
         ELSE [workers EXCEPT ![k].st = "loop", ![k].next = @ + 1]
    /\ UNCHANGED <<chain, store, shutdown, concVars>>

(* the scopes under mu end: getProposal has answered and dataFromBlock     *)
(* returns, the critical section of BlockConnected is done, the vote is    *)
(* erased                                                                  *)
MuRelease(k) ==
    /\ workers[k].st \in {"getProposal", "merge", "erasing"}
    /\ mu = Holder(k)
    /\ mu' = ScopeExit(mu)
    /\ IF workers[k].st = "getProposal"
       THEN /\ workers' = [workers EXCEPT
                  ![k].st = "extracted",
                  ![k].data = dataFromBlock(chain[workers[k].next], workers[k].next,
                                            proposals, SpentOnChain(chain))]
            /\ UNCHANGED store
       ELSE IF workers[k].st = "merge"
       THEN /\ LET st == ConnectMerge(proposals, votes, workers[k].data,
                                      chain[workers[k].next])
               IN  /\ proposals' = st.proposals
                   /\ votes' = st.votes
            /\ workers' = [workers EXCEPT ![k].st = "loop", ![k].next = @ + 1,
                                          ![k].data = NoData]
       ELSE /\ votes' = MapErase(votes, getHash(loader.tmpvotes[workers[k].next + 1]))
            /\ UNCHANGED proposals
            /\ workers' = [workers EXCEPT ![k].st = "loop", ![k].next = @ + 1]
    /\ UNCHANGED <<chain, shutdown, loader, handler, snap, since, call>>

(* ReadBlockFromDisk answers true; a block without a vote payload is       *)
(* extracted without any lock                                              *)
DiskRead(k) ==
    /\ workers[k].st = "read"
    /\ workers' =
         IF HasVotePayload(chain[workers[k].next])
         THEN [workers EXCEPT ![k].st = "isValid"]
         ELSE [workers EXCEPT
                  ![k].st = "extracted",
                  ![k].data = dataFromBlock(chain[workers[k].next], workers[k].next,
                                            proposals, SpentOnChain(chain))]
    /\ UNCHANGED <<chain, store, shutdown, loader, concVars>>

(* ReadBlockFromDisk answers false *)
DiskReadFails(k) ==
    /\ workers[k].st = "read"
    /\ loader' = [loader EXCEPT !.failed = TRUE]
    /\ workers' = [workers EXCEPT ![k].st = "returned"]
    /\ UNCHANGED <<chain, store, shutdown, concVars>>

LockChains ==
    {<<[time |-> 1, vtx |-> <<ProposalTx>>], [time |-> 1, vtx |-> <<VoteTx(1, <<YES>>)>>],
       [time |-> 1, vtx |-> <<VoteTx(2, <<YES>>)>>]>>,
     <<[time |-> 1, vtx |-> <<ProposalTx>>], [time |-> 1, vtx |-> <<VoteTx(1, <<YES>>)>>],
       [time |-> 2, vtx |-> <<VoteTx(1, <<NO>>)>>]>>,
     <<[time |-> 1, vtx |-> <<VoteTx(2, <<YES>>)>>], [time |-> 1, vtx |-> <<ProposalTx>>],
       [time |-> 1, vtx |-> <<SpendTx(1)>>]>>}

LockInit ==
    /\ chain \in LockChains
    /\ proposals = EmptyMap
    /\ votes = EmptyMap
    /\ shutdown = FALSE
    /\ loader = [phase |-> "start", failed |-> FALSE, tmpvotes |-> <<>>, result |-> "none",
                 chainMutex |-> "free"]
    /\ workers = [k \in Workers |-> IdleWorker]
    /\ mu = "free"
    /\ handler = IdleHandler
    /\ snap = NoSnap
    /\ since = IdleSince
    /\ call = NoCall

(* the steps of the threads of the loader *)
LockProgress ==
    \/ LoadStart
    \/ \E k \in Workers : ObserveShutdown(k)
    \/ \E k \in Workers : LockAcquire(k)
    \/ \E k \in Workers : ChainMutexRelease(k)
    \/ \E k \in Workers : MuRelease(k)
    \/ \E k \in Workers : DiskRead(k)
    \/ \E k \in Workers : WorkerExit(k)
    \/ JoinSweep
    \/ JoinPrune

LockNext ==
    \/ LockProgress
    \/ RequestShutdown
    \/ \E k \in Workers : DiskReadFails(k)

SpecLock == LockInit /\ [][LockNext]_vars

(* every thread that can take a step is scheduled in the end *)
SpecLockFair == SpecLock /\ WF_vars(LockProgress)

(***************************************************************************)
(* nextSuperblock(fromBlock, params): the call, with the height of the     *)
(* active chain at the time of the call                                    *)
(***************************************************************************)
(* NextSuperblock(params, fromBlock): fromBlock == 0 stands for "from the  *)
(* chain tip"                                                              *)
NextSuperblock(interval, fromBlock, chainHeight) ==
    IF fromBlock = 0
    THEN chainHeight - (chainHeight % interval) + interval
    ELSE fromBlock - (fromBlock % interval) + interval

nextSuperblock(fromBlock, interval, chainHeight) ==
    NextSuperblock(interval, fromBlock, chainHeight)

MaxFromBlock == 9
MaxChainHeight == 9
SuperblockIntervals == {superblock, superblock - 1}

NextSuperblockInit ==
    /\ Quiet
    /\ call \in {[fn |-> "nextSuperblock", fromBlock |-> b, interval |-> s,
                   chainHeight |-> h, done |-> FALSE, result |-> 0] :
                      b \in 0 .. MaxFromBlock, s \in SuperblockIntervals,
                      h \in 0 .. MaxChainHeight}

NextSuperblockCall ==
    /\ call.fn = "nextSuperblock" /\ ~call.done
    /\ call' = [call EXCEPT
                   !.done = TRUE,
                   !.result = nextSuperblock(call.fromBlock, call.interval, call.chainHeight)]
    /\ UNCHANGED <<chain, store, bootVars, mu, handler, snap, since>>

SpecNextSuperblock == NextSuperblockInit /\ [][NextSuperblockCall]_vars

(***************************************************************************)
(* Vote::voteTypeForString and Vote::voteTypeToString                      *)
(***************************************************************************)
NoParse == [ret |-> FALSE, voteType |-> 0]

(* boost::to_lower in the classic locale, on the strings of the model *)
ToLower(str) ==
    IF str \in {"yes", "YES", "Yes"} THEN "yes"
    ELSE IF str \in {"no", "NO"} THEN "no"
    ELSE IF str \in {"abstain", "Abstain"} THEN "abstain"
    ELSE str

(* the answer and the vote type the caller's variable holds afterwards *)
voteTypeForString(strVote, voteType) ==
    LET lower == ToLower(strVote) IN
    IF lower = "yes" THEN [ret |-> TRUE, voteType |-> YES]
    ELSE IF lower = "no" THEN [ret |-> TRUE, voteType |-> NO]
    ELSE IF lower = "abstain" THEN [ret |-> TRUE, voteType |-> ABSTAIN]
    ELSE [ret |-> FALSE, voteType |-> voteType]

(* the string and what *valid holds afterwards; hasValid says whether the  *)
(* caller passed a pointer, valid what it pointed to before                *)
voteTypeToString(voteType, hasValid, valid) ==
    LET strVote == IF voteType = YES THEN "yes"
                   ELSE IF voteType = NO THEN "no"
                   ELSE IF voteType = ABSTAIN THEN "abstain"
                   ELSE ""
        inElse == IF voteType \notin {YES, NO, ABSTAIN} /\ hasValid THEN FALSE ELSE valid
    IN  [str |-> strVote, valid |-> IF hasValid THEN TRUE ELSE inElse]

MaxVoteTypeValue == 5
VoteStrings == {"yes", "YES", "Yes", "no", "NO", "abstain", "Abstain", "maybe", ""}

VoteTypeInit ==
    /\ Quiet
    /\ call \in {[fn |-> "voteType", voteType |-> t, strVote |-> s, hasValid |-> p,
                   valid |-> v, done |-> FALSE, str |-> "", parsed |-> NoParse,
                   back |-> NoParse] :
                      t \in 0 .. MaxVoteTypeValue, s \in VoteStrings,
                      p \in BOOLEAN, v \in BOOLEAN}

(* voteTypeToString(voteType, valid), voteTypeForString(strVote, ...) and  *)
(* voteTypeForString of the string the former returned, each into a        *)
(* variable that holds the largest value of the model before               *)
VoteTypeCall ==
    /\ call.fn = "voteType" /\ ~call.done
    /\ LET out == voteTypeToString(call.voteType, call.hasValid, call.valid)
       IN  call' = [call EXCEPT
                       !.done = TRUE,
                       !.str = out.str,
                       !.valid = out.valid,
                       !.parsed = voteTypeForString(call.strVote, MaxVoteTypeValue),
                       !.back = voteTypeForString(out.str, MaxVoteTypeValue)]
    /\ UNCHANGED <<chain, store, bootVars, mu, handler, snap, since>>

SpecVoteType == VoteTypeInit /\ [][VoteTypeCall]_vars

(***************************************************************************)
(* Live operation on blocks that carry a proposal together with votes on   *)
(* it                                                                      *)
(***************************************************************************)
SameBlockInputs ==
    {[time |-> 1, vtx |-> <<ProposalTx>>],
     [time |-> 1, vtx |-> <<ProposalTx, VoteTx(1, <<YES>>)>>],
     [time |-> 1, vtx |-> <<VoteTx(2, <<NO>>), ProposalTx>>],
     [time |-> 2, vtx |-> <<VoteTx(1, <<NO>>)>>],
     [time |-> 1, vtx |-> <<SpendTx(1)>>]}

SameBlockNext ==
    \/ \E block \in SameBlockInputs : BlockConnected(block)
    \/ BlockDisconnected

SpecSameBlock == Init /\ [][SameBlockNext]_vars

(***************************************************************************)
(* Live operation on blocks with payloads that do not decode.  A payload   *)
(* is a record of the fields its bytes hold: one without "type" is too     *)
(* short for the discriminator, one without "obj" ends after it.           *)
(***************************************************************************)
(* ss >> obj, ss2 >> proposal, ss2 >> vote: the stream throws at the end   *)
(* of its data; the typed read is reached for the expected version and a   *)
(* known type only                                                         *)
DecodeThrows(out) ==
    /\ out.op = "return"
    /\ \/ "type" \notin DOMAIN out.data
       \/ /\ out.data.version = NETWORK_VERSION
          /\ out.data.type \in {PROPOSAL, VOTE}
          /\ "obj" \notin DOMAIN out.data

(* dataFromBlock leaves by an exception *)
dataFromBlockThrows(block) ==
    \E i \in DOMAIN block.vtx : \E n \in DOMAIN block.vtx[i].vout :
        DecodeThrows(block.vtx[i].vout[n])

ShortPayload == [op |-> "return", data |-> [version |-> NETWORK_VERSION]]
CutPayload(version, type) == [op |-> "return", data |-> [version |-> version, type |-> type]]

(* a funded transaction that carries the outputs outs *)
PayloadTx(outs) == [vin |-> <<FundingIn("kF")>>, vout |-> outs]

DecodeBlockInputs ==
    {[time |-> 1, vtx |-> <<ProposalTx>>],
     [time |-> 1, vtx |-> <<VoteTx(1, <<YES>>)>>],
     [time |-> 1, vtx |-> <<SpendTx(1)>>],
     [time |-> 1, vtx |-> <<ProposalTx, PayloadTx(<<ShortPayload>>)>>],
     [time |-> 1, vtx |-> <<PayloadTx(<<CutPayload(NETWORK_VERSION, PROPOSAL)>>), ProposalTx>>],
     [time |-> 2, vtx |-> <<VoteTx(1, <<NO>>), PayloadTx(<<CutPayload(NETWORK_VERSION, VOTE)>>)>>],
     [time |-> 1, vtx |-> <<SpendTx(1), PayloadTx(<<ShortPayload>>)>>],
     [time |-> 2, vtx |-> <<VoteTx(1, <<NO>>),
                            PayloadTx(<<CutPayload(NETWORK_VERSION + 1, VOTE)>>)>>]}

(* BlockConnected for a block of the chain: the exception of dataFromBlock *)
(* leaves BlockConnected before its critical section and ends the thread   *)
(* that delivers the events                                                *)
BlockConnectedRaw(block) ==
    /\ handler.pc = "idle"
    /\ IF dataFromBlockThrows(block)
       THEN /\ loader.phase = "idle"
            /\ Len(chain) < MaxHeight
            /\ BlockPrevouts(block) \cap SpentOnChain(chain) = {}
            /\ chain' = Append(chain, block)
            /\ handler' = [IdleHandler EXCEPT !.pc = "threw", !.block = block,
                                              !.height = Len(chain) + 1]
            /\ UNCHANGED <<store, bootVars, mu, snap, since, call>>
       ELSE BlockConnected(block)

DecodeNext == \E block \in DecodeBlockInputs : BlockConnectedRaw(block)

SpecDecode == Init /\ [][DecodeNext]_vars

(***************************************************************************)
(* Notions the properties are stated with                                  *)
(***************************************************************************)
Tip == chain[Len(chain)]

(* a step that is a BlockConnected event: the chain grew by one block *)
ConnectStep == Len(chain') = Len(chain) + 1

(* the store that results from delivering the blocks of ch, in height      *)
(* order, to BlockConnected, starting from the empty store                 *)
RECURSIVE Replay(_, _)
Replay(ch, n) ==
    IF n = 0 THEN [proposals |-> EmptyMap, votes |-> EmptyMap]
    ELSE LET st == Replay(ch, n - 1)
         IN  ConnectStore(st.proposals, st.votes, ch[n], n, SpentOnChain(SubSeq(ch, 1, n)))

(* every vote payload of a block, read as dataFromBlock reads it *)
CarriedVotes(block, height) ==
    {ReadVote(block.vtx[i].vout[n].data, [hash |-> block.vtx[i], n |-> n], block.time, height) :
        <<i, n>> \in {q \in (DOMAIN block.vtx) \X (1..2) :
                        /\ q[2] \in DOMAIN block.vtx[q[1]].vout
                        /\ block.vtx[q[1]].vout[q[2]].op = "return"
                        /\ block.vtx[q[1]].vout[q[2]].data.type = VOTE}}

VotesOn(vts, utxo) == {k \in DOMAIN vts : vts[k].utxo = utxo}

(***************************************************************************)
(* C1  After BlockConnected(B) returns the store holds no vote whose       *)
(* voting utxo is the prevout of an input of a transaction of B, whether   *)
(* the vote was stored before B or extracted from B.                       *)
(***************************************************************************)
C1_SpendRemoval ==
    [][ConnectStep =>
        \A k \in DOMAIN votes' : votes'[k].utxo \notin BlockPrevouts(chain'[Len(chain')])]_vars

(* votes of coins 1 and 2 were stored by height 3 and the block at height  *)
(* 4 spent coin 1: the vote of coin 1 is gone, the vote of coin 2 is kept  *)
C1_Witness ==
    /\ Len(chain) = 4
    /\ VotesOn(Replay(chain, 3).votes, 1) # {}
    /\ 1 \in BlockPrevouts(chain[4])
    /\ VotesOn(votes, 1) = {}
    /\ VotesOn(votes, 2) # {}

(***************************************************************************)
(* C2  In every reachable state at most one vote entry exists for each     *)
(* (proposal, utxo) pair.                                                  *)
(***************************************************************************)
C2_OneVotePerPair ==
    \A k1 \in DOMAIN votes : \A k2 \in DOMAIN votes :
        (votes[k1].proposal = votes[k2].proposal /\ votes[k1].utxo = votes[k2].utxo)
            => k1 = k2

(* a YES vote of coin 1 was stored at height 2 and a NO vote of the same   *)
(* pair was merged at height 3: one entry, the NO vote                     *)
C2_Witness ==
    /\ Len(chain) = 3
    /\ \E k \in DOMAIN Replay(chain, 2).votes :
           Replay(chain, 2).votes[k].utxo = 1 /\ Replay(chain, 2).votes[k].vote = YES
    /\ \E k \in DOMAIN votes :
           votes[k].utxo = 1 /\ votes[k].vote = NO /\ votes[k].blockNumber = 3

(***************************************************************************)
(* C3  Cross-block supersession.  When the vote v2 that BlockConnected     *)
(* extracts from B2 (valid, within the voting cutoff, bound to an input)   *)
(* has the digest of a vote e stored from a lower block, time(v2) >        *)
(* time(e) and the utxo is not spent in B2, then after B2 connects the     *)
(* store holds exactly one entry for that digest and it is v2.             *)
(***************************************************************************)
C3_CrossBlockSupersession ==
    [][ConnectStep =>
        LET h == Len(chain')
            B2 == chain'[h]
            data == dataFromBlock(B2, h, proposals, SpentOnChain(chain'))
        IN  \A v2 \in data.vs : \A k \in DOMAIN votes :
                (/\ k = getHash(v2)
                 /\ votes[k].blockNumber < h
                 /\ v2.time > votes[k].time
                 /\ v2.utxo \notin BlockPrevouts(B2))
                => /\ k \in DOMAIN votes'
                   /\ votes'[k] = v2
                   /\ Cardinality({j \in DOMAIN votes' :
                          /\ votes'[j].proposal = v2.proposal
                          /\ votes'[j].utxo = v2.utxo}) = 1]_vars

(* the stored vote of height 3 and time 2 replaced a vote of time 1 with a *)
(* different value and a numerically larger signature digest               *)
C3_Witness ==
    /\ Len(chain) = 3
    /\ \E k \in DOMAIN votes :
          /\ votes[k].time = 2 /\ votes[k].blockNumber = 3
          /\ k \in DOMAIN Replay(chain, 2).votes
          /\ LET e == Replay(chain, 2).votes[k]
             IN  /\ e.time = 1 /\ e.blockNumber = 2 /\ e.vote # votes[k].vote
                 /\ UintToArith256(sigHash(e)) > UintToArith256(sigHash(votes[k]))

(***************************************************************************)
(* C4  Same-block supersession.  When one block carries two valid votes    *)
(* with equal digest and different vote values, the store holds, after the *)
(* block connects, the one whose signature digest is numerically larger,   *)
(* whatever their order in the block.                                      *)
(***************************************************************************)
(* v passes the checks of dataFromBlock at this height *)
Acceptable(v, height, props, spent) ==
    /\ VoteIsValid(v, spent)
    /\ meetsCutoffVote(v, height, props)
    /\ \E i \in DOMAIN v.outpoint.hash.vin : matchesVinPubKey(v, v.outpoint.hash.vin[i])

C4_SameBlockSupersession ==
    [][ConnectStep =>
        LET h == Len(chain')
            B == chain'[h]
            ok(v) == Acceptable(v, h, proposals, SpentOnChain(chain'))
        IN  \A v1 \in CarriedVotes(B, h) : \A v2 \in CarriedVotes(B, h) :
                (/\ getHash(v1) = getHash(v2) /\ v1.vote # v2.vote
                 /\ ok(v1) /\ ok(v2)
                 /\ UintToArith256(sigHash(v1)) > UintToArith256(sigHash(v2)))
                => /\ getHash(v1) \in DOMAIN votes'
                   /\ votes'[getHash(v1)] = v1]_vars

(***************************************************************************)
(* C5  Every stored proposal has blockNumber <= superblock - proposalCutoff*)
(* and every stored vote has blockNumber <= S - votingCutoff, S being the  *)
(* target superblock of the proposal it references.                        *)
(***************************************************************************)
(* the superblock field of the proposal a digest was computed from *)
SuperblockOf(proposalHash) == proposalHash[4]

C5_CutoffInvariant ==
    /\ \A k \in DOMAIN proposals :
          proposals[k].blockNumber <= proposals[k].superblock - proposalCutoff
    /\ \A k \in DOMAIN votes :
          votes[k].blockNumber <= SuperblockOf(votes[k].proposal) - votingCutoff

(* the block at height 4 = superblock - votingCutoff + 1 carries an        *)
(* otherwise valid vote of coin 2 for the stored proposal: nothing stored  *)
C5_Witness ==
    /\ Len(chain) = 4
    /\ AlphaHash \in DOMAIN proposals
    /\ \E v \in CarriedVotes(chain[4], 4) :
          /\ v.utxo = 2 /\ v.proposal = AlphaHash
          /\ VoteIsValid(v, SpentOnChain(chain))
          /\ ~meetsCutoffVote(v, 4, proposals)
    /\ VotesOn(votes, 2) = {}

(***************************************************************************)
(* C6  Reorg symmetry.  For any store state and block B, BlockConnected(B) *)
(* followed at once by BlockDisconnected(B) gives back the store as it was *)
(* before, as far as the objects of B go: none of them remains and no      *)
(* entry that existed before is lost or changed (the votes whose utxo B    *)
(* spends apart).                                                          *)
(***************************************************************************)
ConnectThenDisconnect(block) ==
    LET h == Len(chain) + 1
        s1 == ConnectStore(proposals, votes, block, h, SpentOnChain(Append(chain, block)))
    IN  DisconnectStore(s1.proposals, s1.votes, block, SpentOnChain(chain))

C6_ReorgSymmetry ==
    \A block \in BlockInputs :
        (Len(chain) < MaxHeight /\ BlockPrevouts(block) \cap SpentOnChain(chain) = {})
        => LET s2 == ConnectThenDisconnect(block)
           IN  /\ s2.proposals = proposals
               /\ s2.votes = RemoveSpentVotes(votes, BlockPrevouts(block))

(***************************************************************************)
(* C7  After any sequence of BlockConnected / BlockDisconnected events in  *)
(* canonical order the store equals the one obtained by replaying the      *)
(* blocks of the active chain in height order into an empty store.         *)
(***************************************************************************)
C7_StoreIsReplayOfChain ==
    LET r == Replay(chain, Len(chain))
    IN  proposals = r.proposals /\ votes = r.votes

(***************************************************************************)
(* C8  Bootstrap order-independence.  For a fixed chain and UTXO set the   *)
(* store after loadGovernanceData completes successfully is the same for   *)
(* every interleaving of the workers and equals the store produced by      *)
(* connecting the blocks governanceBlock..H in height order.               *)
(***************************************************************************)
(* the blocks 1..n delivered to BlockConnected in height order, the UTXO   *)
(* set being the one of the tip                                            *)
RECURSIVE ConnectInOrder(_, _)
ConnectInOrder(ch, n) ==
    IF n < governanceBlock THEN [proposals |-> EmptyMap, votes |-> EmptyMap]
    ELSE LET st == ConnectInOrder(ch, n - 1)
         IN  ConnectStore(st.proposals, st.votes, ch[n], n, SpentOnChain(ch))

(* ... followed by the pruning pass *)
InOrderLoad(ch) ==
    LET st == ConnectInOrder(ch, Len(ch))
    IN  [proposals |-> st.proposals,
         votes |-> RemoveSpentVotes(st.votes, SpentOnChain(ch))]

C8_BootOrderIndependence ==
    (loader.phase = "done" /\ loader.result = "true")
    => /\ proposals = InOrderLoad(chain).proposals
       /\ votes = InOrderLoad(chain).votes

(***************************************************************************)
(* C9  A bootstrap worker that observes a shutdown request, in the block   *)
(* sweep or in the pruning pass, processes no further block or vote, and   *)
(* loadGovernanceData returns false.                                       *)
(***************************************************************************)
Observed(k) == workers[k].st = "broke"

C9_ShutdownStopsWorkerAndFails ==
    /\ []((loader.result # "none" /\ \E k \in Workers : Observed(k)) => loader.result = "false")
    /\ [][\A k \in Workers :
            Observed(k) => /\ workers'[k] = workers[k]
                           /\ (loader'.phase = "done" => loader'.result = "false")]_vars

(* a pruning worker observed the request with votes of its slice left to   *)
(* examine; the loader has returned false                                  *)
C9_Witness ==
    /\ loader.phase = "done" /\ loader.result = "false"
    /\ loader.tmpvotes # <<>>
    /\ \E k \in Workers : Observed(k) /\ workers[k].next < workers[k].end

(***************************************************************************)
(* C10  Atomicity of BlockConnected.  A query that runs after              *)
(* BlockConnected has extracted the data of block B and before it returns  *)
(* never shows a vote extracted from B whose utxo is spent in B, and never *)
(* shows a proposal of B without every vote of B that is in the store when *)
(* the call returns.                                                       *)
(***************************************************************************)
InFlight(pc) == pc \in {"lock", "props", "votes", "spent"}

(* the store the call leaves when it returns *)
SnapReturn == ConnectMerge(snap.pre.proposals, snap.pre.votes, snap.data, snap.block)

ShowsProposal(p) ==
    ProposalHash(p) \in DOMAIN snap.proposals /\ snap.proposals[ProposalHash(p)] = p

ShowsVote(v) == getHash(v) \in DOMAIN snap.votes /\ snap.votes[getHash(v)] = v

AcceptedVote(v) ==
    getHash(v) \in DOMAIN SnapReturn.votes /\ SnapReturn.votes[getHash(v)] = v

C10_ConnectIsAtomic ==
    (snap.taken /\ InFlight(snap.pc)) =>
        /\ \A v \in snap.data.vs : v.utxo \in BlockPrevouts(snap.block) => ~ShowsVote(v)
        /\ (\E p \in snap.data.ps : ShowsProposal(p)) =>
               \A v \in snap.data.vs : AcceptedVote(v) => ShowsVote(v)

(* a query ran while the handler waited for mu with a proposal and a vote  *)
(* of one block in hand; the call has returned since and stored the vote,  *)
(* and the answer of the query shows neither the proposal nor the vote     *)
C10_Witness ==
    /\ snap.taken /\ snap.pc = "lock"
    /\ handler.pc = "idle"
    /\ \E p \in snap.data.ps : ~ShowsProposal(p)
    /\ \E v \in snap.data.vs :
           /\ ~ShowsVote(v)
           /\ getHash(v) \in DOMAIN votes /\ votes[getHash(v)] = v

(***************************************************************************)
(* C11  The pair (proposals, votes) that getProposalsSince(sinceBlock)     *)
(* returns is the blockNumber >= sinceBlock filter of one single state of  *)
(* the store, also when a handler runs on another thread during the call.  *)
(***************************************************************************)
C11_SinceIsSnapshot ==
    since.pc = "done" =>
        \E s \in since.seen :
            /\ since.allProposals = SinceFilter(s.proposals, since.sinceBlock)
            /\ since.allVotes = SinceFilter(s.votes, since.sinceBlock)

(***************************************************************************)
(* C12  Sybil collapse, voteBalance = 100.  Two YES votes for one proposal *)
(* from two coins worth 1000 each give yes = 10 when the two coins were    *)
(* created by one source transaction, and yes = 20 when the source         *)
(* transactions are independent and the keys differ.                       *)
(***************************************************************************)
Tallied == call.fn = "getTally" /\ call.done

C12_SybilCollapse ==
    Tallied =>
        \A a \in call.votes : \A b \in call.votes :
            (/\ a # b /\ call.votes = {a, b}
             /\ a.vote = YES /\ b.vote = YES
             /\ a.amount = 10 * voteBalance /\ b.amount = 10 * voteBalance)
            => /\ CoinTable[a.utxo].source = CoinTable[b.utxo].source
                    => call.tally.yes = 10
               /\ (CoinTable[a.utxo].source # CoinTable[b.utxo].source /\ a.pubkey # b.pubkey)
                    => call.tally.yes = 20

(***************************************************************************)
(* C13  (as stated) The tally getTally returns satisfies                   *)
(* yes = cyes / voteBalance, no = cno / voteBalance and                    *)
(* abstain = cabstain / voteBalance.                                       *)
(***************************************************************************)
C13_CountsAreTotalsDivided ==
    Tallied =>
        /\ call.tally.yes = call.tally.cyes \div voteBalance
        /\ call.tally.no = call.tally.cno \div voteBalance
        /\ call.tally.abstain = call.tally.cabstain \div voteBalance

(***************************************************************************)
(* C13  (amended) cyes, cno and cabstain are the summed amounts of the     *)
(* votes of the proposal, each vote counted once.  The counts are summed   *)
(* per identity set, each set rounded down on its own, so that             *)
(* yes <= cyes / voteBalance (and likewise no, abstain), with equality     *)
(* when all the votes were carried by one transaction.                     *)
(***************************************************************************)
VotesFor(x) == {v \in call.votes : v.proposal = call.proposal /\ v.vote = x}

OneCarrier == \A a \in call.votes : \A b \in call.votes : a.outpoint.hash = b.outpoint.hash

C13_CountsPerIdentity ==
    Tallied =>
        /\ call.tally.cyes = SumAmounts(VotesFor(YES))
        /\ call.tally.cno = SumAmounts(VotesFor(NO))
        /\ call.tally.cabstain = SumAmounts(VotesFor(ABSTAIN))
        /\ call.tally.yes <= call.tally.cyes \div voteBalance
        /\ call.tally.no <= call.tally.cno \div voteBalance
        /\ call.tally.abstain <= call.tally.cabstain \div voteBalance
        /\ OneCarrier => C13_CountsAreTotalsDivided

(* two YES votes of 250 from unlinked identities: cyes = 500, yes = 4 *)
C13_Witness ==
    /\ Tallied
    /\ Cardinality(call.votes) = 2
    /\ call.tally.cyes = 500
    /\ call.tally.yes = 4

(***************************************************************************)
(* C14  Vin binding.  Every vote dataFromBlock returns, and so every vote  *)
(* in the store, was carried by a transaction that has an input whose      *)
(* unlocking script shows a public key with the key id of the public key   *)
(* recovered from the signature of the vote.                               *)
(***************************************************************************)
BoundToVin(v) ==
    \E i \in DOMAIN v.outpoint.hash.vin :
        /\ v.outpoint.hash.vin[i].pubkey # NullKey
        /\ v.outpoint.hash.vin[i].pubkey = RecoverCompact(sigHash(v), v.signature)

C14_VinBinding ==
    /\ \A k \in DOMAIN votes : BoundToVin(votes[k])
    /\ \A block \in AcceptBlockInputs : \A h \in {NoIndex, Len(chain) + 1} :
          \A v \in dataFromBlock(block, h, proposals, SpentOnChain(chain)).vs : BoundToVin(v)

(* the tip carries a vote that is valid and within the cutoff, no input of *)
(* its transaction shows the signer's key, and the store does not hold it  *)
C14_Witness ==
    /\ chain # <<>>
    /\ \E v \in CarriedVotes(Tip, Len(chain)) :
          /\ VoteIsValid(v, SpentOnChain(chain))
          /\ meetsCutoffVote(v, Len(chain), proposals)
          /\ ~BoundToVin(v)
          /\ getHash(v) \notin DOMAIN votes

(***************************************************************************)
(* C15  Every vote in the store has a vote value in {NO, YES, ABSTAIN}, an *)
(* amount >= voteMinUtxoAmount, and a signature whose recovered public key *)
(* has the key id that controls the voting utxo.                           *)
(***************************************************************************)
C15_StoredVoteIsValid ==
    \A k \in DOMAIN votes :
        /\ votes[k].vote \in {NO, YES, ABSTAIN}
        /\ votes[k].utxo \in DOMAIN CoinTable
        /\ CoinTable[votes[k].utxo].amount >= voteMinUtxoAmount
        /\ RecoverCompact(sigHash(votes[k]), votes[k].signature) = CoinTable[votes[k].utxo].keyid

(* the tip carries a vote of coin 1 signed by another key, in a            *)
(* transaction whose input shows that key; the store does not hold it      *)
C15_Witness ==
    /\ chain # <<>>
    /\ AlphaHash \in DOMAIN proposals
    /\ \E v \in CarriedVotes(Tip, Len(chain)) :
          /\ BoundToVin(v)
          /\ v.pubkey # CoinTable[v.utxo].keyid
          /\ getHash(v) \notin DOMAIN votes

(***************************************************************************)
(* C16  Hash stability.  For two votes that differ only in the vote value  *)
(* (same version, type, proposal and utxo) getHash() is equal and          *)
(* sigHash() differs.                                                      *)
(***************************************************************************)
DifferInVoteOnly(a, b) ==
    /\ a.version = b.version /\ a.type = b.type
    /\ a.proposal = b.proposal /\ a.utxo = b.utxo
    /\ a.vote # b.vote

C16_HashStability ==
    (call.fn = "hash" /\ call.done /\ DifferInVoteOnly(call.a, call.b))
    => /\ call.hashA = call.hashB
       /\ call.sigHashA # call.sigHashB

(* both digests were computed for a YES and a NO vote of one coin on one   *)
(* proposal                                                                *)
C16_Witness ==
    /\ call.fn = "hash" /\ call.done
    /\ DifferInVoteOnly(call.a, call.b)
    /\ call.a.vote = YES /\ call.b.vote = NO
    /\ call.hashA = <<NETWORK_VERSION, VOTE, AlphaHash, 1>>

(***************************************************************************)
(* C17  Cutoff monotonicity.  With the proposals of the store fixed, if    *)
(* meetsCutoff(vote, h) holds then meetsCutoff(vote, h') holds for every   *)
(* h' < h.                                                                 *)
(***************************************************************************)
C17_CutoffMonotone ==
    (call.fn = "meetsCutoff" /\ call.done /\ call.hLow < call.h /\ call.atH) => call.atLow

(* the vote meets the cutoff at the last admissible height of its proposal *)
(* and at a lower height                                                   *)
C17_Witness ==
    /\ call.fn = "meetsCutoff" /\ call.done
    /\ call.vote.proposal = AlphaHash
    /\ call.h = superblock - votingCutoff /\ call.hLow = 1
    /\ call.atH /\ call.atLow

(***************************************************************************)
(* C18  Whenever submitVotes returns failure, it has set a failure reason  *)
(* and no voting transaction has been committed to any wallet by the call: *)
(* the coins of the wallets are as they were before the call.              *)
(***************************************************************************)
SubmitReturned(ret) == call.fn = "submitVotes" /\ call.pc = "returned" /\ call.ret = ret

C18_FailureLeavesWalletsUntouched ==
    SubmitReturned("false") =>
        /\ call.failReason # ""
        /\ call.txsRet = <<>>
        /\ call.wallets = (IF call.vwallets = <<>> THEN call.loaded ELSE call.vwallets)

(***************************************************************************)
(* C19  When BlockConnected meets an extracted vote v whose digest is      *)
(* already stored as e, it replaces e by v if and only if time(v) >        *)
(* time(e), or time(v) = time(e) and sigHash(v) > sigHash(e); a stored     *)
(* vote is never replaced by a vote with a strictly smaller block time.    *)
(* (The utxo is not spent in the block, so the entry is not erased.)       *)
(***************************************************************************)
C19_ReplacementRule ==
    [][ConnectStep =>
        LET h == Len(chain')
            B == chain'[h]
            data == dataFromBlock(B, h, proposals, SpentOnChain(chain'))
        IN  \A v \in data.vs : \A k \in DOMAIN votes :
                (k = getHash(v) /\ v.utxo \notin BlockPrevouts(B))
                => LET e == votes[k]
                   IN  (votes'[k] = v /\ v # e)
                       <=> \/ v.time > e.time
                           \/ /\ v.time = e.time
                              /\ UintToArith256(sigHash(v)) > UintToArith256(sigHash(e))]_vars

(***************************************************************************)
(* C20  The vote merge is commutative: for any two valid votes v1 and v2   *)
(* with the same digest arriving in two different blocks, the entry stored *)
(* after merging v1 then v2 is the entry stored after merging v2 then v1.  *)
(***************************************************************************)
(* Entries are compared by what was signed, the vote value included: two   *)
(* entries that differ in their block only count as the same entry.        *)
SignedEntries(vts) == {<<k, vts[k].vote, vts[k].signature>> : k \in DOMAIN vts}

C20_MergeCommutes ==
    (call.fn = "merge" /\ call.done /\ getHash(call.v1) = getHash(call.v2))
    => SignedEntries(call.v1v2) = SignedEntries(call.v2v1)

(***************************************************************************)
(* C21  For every chain height H >= governanceBlock > 0 and every number   *)
(* of cores N >= 1 (H - governanceBlock < N included) the N sweep slices   *)
(* are contiguous, pairwise disjoint and cover exactly the heights         *)
(* governanceBlock..H: every height of the range lies in exactly one       *)
(* slice and no slice holds a height outside it.                           *)
(***************************************************************************)
Sharded == call.fn = "shard" /\ call.done /\ call.start # <<>>

InShard(i, h) == call.start[i] <= h /\ h < call.end[i]

C21_SlicesPartitionRange ==
    Sharded =>
        /\ call.start[1] = call.first
        /\ \A i \in 1 .. (call.cores - 1) : call.end[i] = call.start[i + 1]
        /\ \A i \in 1 .. call.cores : call.start[i] <= call.end[i]
        /\ \A h \in call.first .. call.blockHeight :
              Cardinality({i \in 1 .. call.cores : InShard(i, h)}) = 1
        /\ \A h \in 0 .. (call.blockHeight + 2) :
              (\E i \in 1 .. call.cores : InShard(i, h))
              => (call.first <= h /\ h <= call.blockHeight)

(* fewer blocks than cores: the slices before the last are empty *)
C21_Witness ==
    /\ Sharded
    /\ call.cores > 1
    /\ call.blockHeight - call.first < call.cores
    /\ call.blockHeight > call.first
    /\ call.start[1] = call.end[1]

(***************************************************************************)
(* C22  When loadGovernanceData returns success on a chain that does not   *)
(* change during the load, no vote in the store references a utxo that is  *)
(* spent on the chain: the post-sweep snapshot holds every vote of the     *)
(* store, its slices give every vote to exactly one pruning worker, a      *)
(* worker removes the vote it examines when its utxo is spent, and on      *)
(* success every worker has gone through its whole slice.                  *)
(***************************************************************************)
LoadSucceeded == loader.phase = "done" /\ loader.result = "true"

C22_NoSpentVoteAfterLoad ==
    /\ [](LoadSucceeded =>
            /\ \A k \in DOMAIN votes : votes[k].utxo \notin SpentOnChain(chain)
            /\ loader.tmpvotes # <<>> => \A k \in Workers : workers[k].next = workers[k].end)
    /\ [][/\ (loader.phase = "sweep" /\ loader'.phase = "prune")
             => /\ Len(loader'.tmpvotes) = Cardinality(DOMAIN votes)
                /\ {loader'.tmpvotes[i] : i \in DOMAIN loader'.tmpvotes} = MapValues(votes)
                /\ \A i \in 0 .. (Len(loader'.tmpvotes) - 1) :
                      Cardinality({k \in Workers :
                          workers'[k].next <= i /\ i < workers'[k].end}) = 1
          /\ \A k \in Workers :
                (loader.phase = "prune" /\ workers'[k].next = workers[k].next + 1)
                => LET vote == loader.tmpvotes[workers[k].next + 1]
                   IN  vote.utxo \in SpentOnChain(chain) => getHash(vote) \notin DOMAIN votes']_vars

(* a successful load whose snapshot held a vote, on a chain that spends a  *)
(* coin                                                                    *)
C22_Witness ==
    /\ LoadSucceeded
    /\ loader.tmpvotes # <<>>
    /\ SpentOnChain(chain) # {}
    /\ \A k \in Workers : workers[k].st = "finished"

(***************************************************************************)
(* C23  If the chain height H is 0 or H < governanceBlock,                 *)
(* loadGovernanceData returns success at once: no worker is spawned, no    *)
(* block is read, the proposal and vote maps are unchanged.                *)
(***************************************************************************)
C23_NothingToLoad ==
    /\ (loader.phase # "idle" /\ (Len(chain) = 0 \/ Len(chain) < governanceBlock))
       => /\ loader.phase \in {"start", "done"}
          /\ loader.phase = "done" => loader.result = "true"
          /\ workers = [k \in Workers |-> IdleWorker]
          /\ proposals = EmptyMap /\ votes = EmptyMap
    /\ (call.fn = "shard" /\ call.done
        /\ (call.blockHeight = 0 \/ call.blockHeight < call.first))
       => /\ call.result = "true"
          /\ call.start = <<>> /\ call.end = <<>>
          /\ proposals = EmptyMap /\ votes = EmptyMap

(* the loader has returned on the empty chain *)
C23_Witness ==
    /\ loader.phase = "done"
    /\ Len(chain) = 0
    /\ loader.result = "true"

(***************************************************************************)
(* C24  The four steps of BlockConnected (extraction, proposal insertion,  *)
(* vote merge, spent-utxo removal) run in one critical section: while a    *)
(* thread is between the store reads of its extraction and the merge of    *)
(* the same block, no other thread changes the store.                      *)
(***************************************************************************)
C24_ConnectIsOneCriticalSection ==
    [][\A k \in Workers :
          (workers[k].st = "extracted" /\ workers'[k].st = "extracted")
          => (proposals' = proposals /\ votes' = votes)]_vars

(***************************************************************************)
(* C25  In getTally each vote of the input that references the target      *)
(* proposal contributes its amount exactly once, to the one of cyes, cno,  *)
(* cabstain its vote value names, and votes that reference other proposals *)
(* contribute nothing: cyes + cno + cabstain is the sum of the amounts of  *)
(* the votes of the target proposal, whatever the grouping.                *)
(***************************************************************************)
OnTarget == {v \in call.votes : v.proposal = call.proposal}

C25_EachVoteCountedOnce ==
    Tallied =>
        /\ call.tally.cyes = SumAmounts({v \in OnTarget : v.vote = YES})
        /\ call.tally.cno = SumAmounts({v \in OnTarget : v.vote = NO})
        /\ call.tally.cabstain = SumAmounts({v \in OnTarget : v.vote = ABSTAIN})
        /\ call.tally.cyes + call.tally.cno + call.tally.cabstain = SumAmounts(OnTarget)

(* two votes on the target that share the key and come in two              *)
(* transactions, one of them together with a vote on another proposal      *)
C25_Witness ==
    /\ Tallied
    /\ \E a \in OnTarget : \E b \in OnTarget : \E c \in call.votes \ OnTarget :
          /\ a # b /\ a.pubkey = b.pubkey /\ a.outpoint.hash # b.outpoint.hash
          /\ c.outpoint.hash = a.outpoint.hash
          /\ a.vote # b.vote
    /\ call.tally.cyes + call.tally.cno + call.tally.cabstain = 500

(***************************************************************************)
(* C26  In getTally any two votes for the target proposal that were cast   *)
(* from the same transaction, or that share the recovered public-key id,   *)
(* are accumulated into the same per-identity subtally, whatever the order *)
(* of the transaction hashes.                                              *)
(***************************************************************************)
Subtallies == IdentitySets(OnTarget, call.order, 1, {})

C26_LinkedVotesShareSubtally ==
    Tallied =>
        \A a \in OnTarget : \A b \in OnTarget :
            (a.outpoint.hash = b.outpoint.hash \/ a.pubkey = b.pubkey)
            => \E i \in DOMAIN Subtallies : a \in Subtallies[i] /\ b \in Subtallies[i]

(***************************************************************************)
(* C27  Proposal::isValid accepts a proposal only if its superblock is a   *)
(* positive multiple of the superblock interval: a proposal with           *)
(* superblock = 0 or a negative multiple is rejected.                      *)
(***************************************************************************)
C27_SuperblockIsPositiveMultiple ==
    (call.fn = "isValid" /\ call.done /\ call.valid)
    => /\ call.proposal.superblock > 0
       /\ \E n \in 1 .. MaxProposalSuperblock : call.proposal.superblock = n * superblock

(***************************************************************************)
(* C28  A governance payload that fails to decode is skipped silently:     *)
(* dataFromBlock still extracts every other valid proposal and vote of the *)
(* block and BlockConnected completes normally, its merge and its          *)
(* spend-removal applied.  The store after the block is the store the      *)
(* block gives once the payloads that do not decode are taken out.         *)
(***************************************************************************)
WithoutUndecodable(block) ==
    [block EXCEPT !.vtx =
        [i \in DOMAIN block.vtx |->
            [block.vtx[i] EXCEPT !.vout =
                SelectSeq(block.vtx[i].vout, LAMBDA out : ~DecodeThrows(out))]]]

C28_UndecodablePayloadSkipped ==
    [][ConnectStep =>
        LET h == Len(chain')
            st == ConnectStore(proposals, votes, WithoutUndecodable(chain'[h]), h,
                               SpentOnChain(chain'))
        IN  /\ handler'.pc = "idle"
            /\ DOMAIN proposals' = DOMAIN st.proposals
            /\ SignedEntries(votes') = SignedEntries(st.votes)]_vars

(***************************************************************************)
(* C29  During the bootstrap sweep the cutoff check is disabled: a         *)
(* proposal found in a block of the chain at a height beyond its cutoff    *)
(* distance is still loaded into the store by loadGovernanceData.  After   *)
(* a load that succeeded, the proposal of every block of the chain that    *)
(* lies beyond superblock - proposalCutoff is in the store.                *)
(***************************************************************************)
HoldsProposalBeyondCutoff(h) ==
    /\ h > superblock - proposalCutoff
    /\ \E i \in DOMAIN chain[h].vtx : chain[h].vtx[i] = ProposalTx

C29_BootstrapLoadsBeyondCutoff ==
    LoadSucceeded =>
        \A h \in DOMAIN chain :
            HoldsProposalBeyondCutoff(h) => AlphaHash \in DOMAIN proposals

(***************************************************************************)
(* C30  Every transaction committed by submitVotes carries at most         *)
(* MAX_OP_RETURN_IN_TRANSACTION vote OP_RETURN outputs, for any number of  *)
(* voting coins and proposals.                                             *)
(***************************************************************************)
VoteOutputs(tx) == {n \in DOMAIN tx.vout : tx.vout[n].op = "return"}

C30_VoteOutputsBounded ==
    call.fn = "submitVotes" =>
        \A t \in DOMAIN call.txsRet :
            Cardinality(VoteOutputs(call.txsRet[t])) <= MAX_OP_RETURN_IN_TRANSACTION

(* a call that had more votes to cast than one transaction holds: a full   *)
(* transaction is committed and a further one carries the rest             *)
C30_Witness ==
    /\ call.fn = "submitVotes"
    /\ Len(call.txsRet) >= 2
    /\ Cardinality(VoteOutputs(call.txsRet[1])) = MAX_OP_RETURN_IN_TRANSACTION
    /\ VoteOutputs(call.txsRet[2]) # {}

(***************************************************************************)
(* C31  Across all transactions produced by one submitVotes call, over all *)
(* wallets and loop iterations, at most one vote output is created per     *)
(* (voting coin, proposal) pair, and no vote output is created for a pair  *)
(* for which the store already holds a vote.                               *)
(***************************************************************************)
CastVotes ==
    {<<t, n>> \in (DOMAIN call.txsRet) \X (1 .. (MAX_OP_RETURN_IN_TRANSACTION + 1)) :
        n \in VoteOutputs(call.txsRet[t])}

CastPair(o) ==
    LET obj == call.txsRet[o[1]].vout[o[2]].data.obj IN <<obj.utxo, obj.proposal>>

C31_OneVotePerCoinAndProposal ==
    call.fn = "submitVotes" =>
        /\ \A o1 \in CastVotes : \A o2 \in CastVotes :
               CastPair(o1) = CastPair(o2) => o1 = o2
        /\ \A o \in CastVotes : ~\E k \in DOMAIN votes :
               <<votes[k].utxo, votes[k].proposal>> = CastPair(o)

(* a call on a proposal named twice, by a wallet one of whose voting coins *)
(* has its vote in the store already, that cast votes in two transactions  *)
C31_Witness ==
    /\ call.fn = "submitVotes"
    /\ Len(call.txsRet) >= 2
    /\ Len(call.proposals) = 2
    /\ ProposalHash(call.proposals[1].proposal) = ProposalHash(call.proposals[2].proposal)
    /\ \E k \in DOMAIN votes : \E c \in call.wallets[1].coins :
           /\ votes[k].utxo = c.outpoint
           /\ votes[k].proposal = ProposalHash(call.proposals[1].proposal)

(***************************************************************************)
(* C32  Every vote output placed by submitVotes in a transaction satisfies *)
(* the vin-binding rule of the extractor: the same transaction spends an   *)
(* input coin controlled by the key that signed the vote, and that input   *)
(* coin is never itself used as a voting coin in that transaction; for     *)
(* every wallet coin distribution and every setting of voteMinUtxoAmount   *)
(* and the vote-input amount.                                              *)
(***************************************************************************)
CastVote(tx, n) == ReadVote(tx.vout[n].data, [hash |-> tx, n |-> n], 0, NoIndex)

C32_VotesBoundToInputs ==
    call.fn = "submitVotes" =>
        \A t \in DOMAIN call.txsRet :
            LET tx == call.txsRet[t] IN
            \A n \in VoteOutputs(tx) :
                /\ \E i \in DOMAIN tx.vin : matchesVinPubKey(CastVote(tx, n), tx.vin[i])
                /\ \A i \in DOMAIN tx.vin : tx.vin[i].prevout # CastVote(tx, n).utxo

(***************************************************************************)
(* C33  Every vote in the store references a proposal that is in the       *)
(* store, in every state reachable by BlockConnected and BlockDisconnected *)
(* events delivered in canonical order, chains in which the same proposal  *)
(* payload is mined in more than one block included.                       *)
(***************************************************************************)
C33_VotesReferenceStoredProposals ==
    \A k \in DOMAIN votes : votes[k].proposal \in DOMAIN proposals

(***************************************************************************)
(* C34  A proposal or vote leaves the store only when the block that       *)
(* introduced its stored entry disconnects or, for a vote, when its utxo   *)
(* is spent in a connected block: BlockDisconnected(B) leaves unchanged    *)
(* every stored proposal and vote whose entry was introduced by a block    *)
(* other than B that is still on the chain.                                *)
(***************************************************************************)
DisconnectStep == Len(chain') = Len(chain) - 1

(* the entries of a store map that a block below the tip introduced *)
IntroducedBelowTip(map) == {k \in DOMAIN map : map[k].blockNumber \in 1 .. (Len(chain) - 1)}

C34_DisconnectKeepsOtherBlocksEntries ==
    [][DisconnectStep =>
        /\ \A k \in IntroducedBelowTip(proposals) :
               k \in DOMAIN proposals' /\ proposals'[k] = proposals[k]
        /\ \A k \in IntroducedBelowTip(votes) :
               k \in DOMAIN votes' /\ votes'[k] = votes[k]]_vars

(***************************************************************************)
(* C35  BlockConnected(B) stores a vote only if the proposal it references *)
(* was already in the store before this call began: a vote mined in the    *)
(* same block in which its proposal first appears is not stored.           *)
(***************************************************************************)
StoredByStep == {k \in DOMAIN votes' : k \notin DOMAIN votes \/ votes'[k] # votes[k]}

C35_VoteNeedsEarlierProposal ==
    [][ConnectStep => \A k \in StoredByStep : votes'[k].proposal \in DOMAIN proposals]_vars

(* the first block of the chain carries the proposal and a vote on it: the *)
(* proposal is stored, the vote is not                                     *)
C35_Witness ==
    /\ Len(chain) = 1
    /\ Len(chain[1].vtx) = 2
    /\ AlphaHash \in DOMAIN proposals
    /\ votes = EmptyMap

(***************************************************************************)
(* C36  Under fair scheduling and with no shutdown request or read         *)
(* failure, loadGovernanceData terminates with success: all sweep workers  *)
(* and all pruning workers finish, and no thread ever waits for the chain  *)
(* mutex while holding the state-store mutex (or the reverse), nor holds   *)
(* either mutex while reading a block from disk, so no deadlock is         *)
(* reachable.                                                              *)
(***************************************************************************)
HoldsMu(k) == mu = Holder(k)
HoldsChainMutex(k) == loader.chainMutex = Holder(k)

LockDiscipline ==
    \A k \in Workers :
        /\ ~(HoldsMu(k) /\ HoldsChainMutex(k))
        /\ HoldsMu(k) => WantsLock(workers[k]) = "none"
        /\ HoldsChainMutex(k) => WantsLock(workers[k]) = "none"
        /\ workers[k].st = "read" => ~HoldsMu(k) /\ ~HoldsChainMutex(k)

SmallestMultipleAbove(interval, fromBlock) ==
    CHOOSE x \in (fromBlock + 1) .. (fromBlock + interval) : x % interval = 0

C37_NextSuperblockFollowsFromBlock ==
    (call.fn = "nextSuperblock" /\ call.done) =>
        call.result = SmallestMultipleAbove(call.interval, call.fromBlock)

(***************************************************************************)
(* C38  voteTypeToString sets *valid to true exactly when the given value  *)
(* is one of YES, NO, ABSTAIN and to false otherwise, and                  *)
(* voteTypeForString(voteTypeToString(t)) returns t for each of the three  *)
(* vote types.                                                             *)
(***************************************************************************)
C38_ValidFlagAndRoundTrip ==
    (call.fn = "voteType" /\ call.done) =>
        /\ call.hasValid => (call.valid <=> call.voteType \in {YES, NO, ABSTAIN})
        /\ call.voteType \in {YES, NO, ABSTAIN} =>
               call.back.ret /\ call.back.voteType = call.voteType

====
